---- MODULE Spec2Model ----
(***************************************************************************)
(* The Merkle Search Tree of rsky-pds (src/rsky-pds/src/repo/mst/mod.rs)   *)
(* as a state machine: one tree value is carried from call to call, every  *)
(* call of add, update or delete is one step, and the recursive methods of *)
(* MST are recursive operators that follow the Rust code branch by branch. *)
(***************************************************************************)
EXTENDS Integers, Sequences, FiniteSets, TLC

VARIABLES
    overflow_checks,  \* the build: TRUE when integer overflow panics (debug), FALSE when it wraps
    tree,             \* the MST the caller holds
    ref,              \* reference map key -> Option<value>, updated by the successful calls
    call,             \* the last call: operation, arguments, outcome, self before and after
    adds_only,        \* TRUE while the history is successful adds of distinct keys
    proper,           \* TRUE while no add of a present key and no update or delete of an absent key succeeded
    steps,            \* number of calls made
    repo_root,        \* the repo_root row of the repo: commit CID and rev
    block_store,      \* CIDs of the commits whose blocks are in the durable block store
    record_index,     \* the record table: the records indexed from write descriptors
    tid_clock,        \* the last TID handed out by TID::next_str
    storage_readers,  \* the imports that hold a guard of actor_store.storage.read()
    imports,          \* per running import: its position in inner_import_repo and its locals
    block_map,        \* a BlockMap: its map from CID strings to bytes
    block_ref,        \* reference: per CID, the bytes last stored and not deleted since
    block_call,       \* the last BlockMap call: method, arguments, self before, result
    conv,             \* the last conversion between JSON, IPLD and Lex values: input and outputs
    mst_walker,       \* an MstWalker: the tree it walks, its stack and status, the leaves met, the last call
    seq_evt           \* the last call of format_seq_commit: what it was given and the event it made

mst_vars == <<overflow_checks, tree, ref, call, adds_only, proper, steps>>

import_vars == <<repo_root, block_store, record_index, tid_clock, storage_readers, imports>>

block_vars == <<block_map, block_ref, block_call>>

\* what the MST calls, the imports and the BlockMap calls leave alone
conv_vars == <<conv>>

walk_vars == <<mst_walker>>

seq_vars == <<seq_evt>>

non_mst_vars == <<import_vars, block_vars, conv_vars, walk_vars, seq_vars>>
non_import_vars == <<mst_vars, block_vars, conv_vars, walk_vars, seq_vars>>
non_block_vars == <<mst_vars, import_vars, conv_vars, walk_vars, seq_vars>>
non_conv_vars == <<mst_vars, import_vars, block_vars, walk_vars, seq_vars>>
non_walk_vars == <<mst_vars, import_vars, block_vars, conv_vars, seq_vars>>
non_seq_vars == <<mst_vars, import_vars, block_vars, conv_vars, walk_vars>>

vars == <<mst_vars, import_vars, block_vars, conv_vars, walk_vars, seq_vars>>

\* ------------------------------------------------------------------ bounds

\* number of add / update / delete calls in one behaviour
MaxOps == 4

\* largest count passed to list and list_with_prefix
MaxCount == 3

\* number of calls of inner_import_repo in one behaviour (each takes one TID)
MaxImports == 3

\* largest number of CIDs in one request of BlockMap::get_many
MaxCids == 3

\* ------------------------------------------------------------------ Option and Result

None == <<>>
Some(x) == <<x>>
IsSome(o) == o # <<>>

Ok(v) == [tag |-> "Ok", val |-> v, msg |-> ""]
Err(m) == [tag |-> "Err", val |-> <<>>, msg |-> m]
Panic(m) == [tag |-> "Panic", val |-> <<>>, msg |-> m]
IsOk(r) == r.tag = "Ok"

\* `let x = v; F(x)`: v is evaluated once and F applied to its value.
Let(v, F(_)) == CHOOSE y \in {F(x) : x \in {v}} : TRUE

\* `let x = r?; F(x)`: an Err or a panic of r is returned as it is, else F
\* is applied to the value r holds.
Try(r, F(_)) == Let(r, LAMBDA x : IF IsOk(x) THEN F(x.val) ELSE x)

KeyExistsMsg == "There is already a value at key"
KeyNotFoundMsg == "Could not find a record with key"
MergeLayersMsg == "Trying to merge two nodes from different layers of the MST"
InvalidKeyMsg == "Not a valid MST key"
TwoSubtreesMsg == "Not a valid node: two subtrees next to each other"
SubOverflowMsg == "attempt to subtract with overflow"
StackOverflowMsg == "stack overflow"
MissingBlockMsg == "DataStoreError::MissingBlock"
UnexpectedObjectMsg == "DataStoreError::UnexpectedObject"
IndexOutOfBoundsMsg == "index out of bounds: the len is 0 but the index is 0"
UnwrapNoneMsg == "called Option::unwrap() on a None value"

\* ------------------------------------------------------------------ keys and values

\* Keys are strings, modelled as sequences of character codes; the empty
\* string is the one invalid key of the model.
Keys == {<<1>>, <<1, 1>>, <<2>>, <<2, 1>>, <<3>>, <<4>>}
AllKeys == Keys \cup {<<>>}

\* Record CIDs stored at the leaves.
Values == {[record |-> 1], [record |-> 2]}

\* String comparison: bytewise lexicographic, as Rust's `String: Ord`.
RECURSIVE KeyLt(_, _)
KeyLt(a, b) ==
    IF b = <<>> THEN FALSE
    ELSE IF a = <<>> THEN TRUE
    ELSE IF a[1] # b[1] THEN a[1] < b[1]
    ELSE KeyLt(Tail(a), Tail(b))

KeyGe(a, b) == ~KeyLt(a, b)

\* util::ensure_valid_mst_key: rejects the empty key (the other keys of the
\* model are within the length limit and use valid characters).
ensure_valid_mst_key(key) == key # <<>>

\* util::leading_zeros_on_hash: the number of leading zero groups of
\* SHA-256(key); a fixed function of the key, given here as its table on Keys.
leading_zeros_on_hash(key) ==
    CASE key = <<1>> -> 0
      [] key = <<1, 1>> -> 1
      [] key = <<2>> -> 0
      [] key = <<2, 1>> -> 1
      [] key = <<3>> -> 2
      [] key = <<4>> -> 0
      [] OTHER -> 0

\* ------------------------------------------------------------------ node entries

Leaf(key, value) == [type |-> "Leaf", key |-> key, value |-> value]
SubTree(t) == [type |-> "MST", tree |-> t]
is_leaf(e) == e.type = "Leaf"
is_tree(e) == e.type = "MST"

\* MST::new
new(pointer, entries, layer) ==
    [entries |-> entries, layer |-> layer, pointer |-> pointer, outdated_pointer |-> FALSE]

\* MST::get_entries on a hydrated tree (entries is Some): the entries.
get_entries(self) == self.entries

\* MST::new_tree: the entries replaced, layer and (stale) pointer copied,
\* outdated_pointer set.
new_tree(self, entries) ==
    [entries |-> entries, layer |-> self.layer, pointer |-> self.pointer,
     outdated_pointer |-> TRUE]

\* MST::slice with both bounds, 0-based and half open as a Rust range.
slice(self, start, end) == SubSeq(get_entries(self), start + 1, end)

\* MST::slice with a start only.
slice_from(self, start) == SubSeq(get_entries(self), start + 1, Len(get_entries(self)))

\* MST::at_index: Vec::get, None past the end.
at_index(self, index) ==
    IF index < Len(get_entries(self)) THEN Some(get_entries(self)[index + 1]) ELSE None

\* `self.at_index(index - 1)` on a usize index.  At index 0 the subtraction
\* overflows: a build with overflow checks panics, a build without them
\* wraps to usize::MAX, which Vec::get answers with None.
at_index_minus_one(self, index) ==
    IF index = 0
    THEN IF overflow_checks THEN Panic(SubOverflowMsg) ELSE Ok(None)
    ELSE Ok(at_index(self, index - 1))

\* Position of the first element of a sequence of leaves with key >= key,
\* 0-based; None when there is none (Iterator::position).
RECURSIVE Position(_, _, _)
Position(leaves, key, i) ==
    IF i > Len(leaves) THEN None
    ELSE IF KeyGe(leaves[i].key, key) THEN Some(i - 1)
    ELSE Position(leaves, key, i + 1)

\* MST::find_gt_or_equal_leaf_index: the entries are filtered to the leaves
\* first, and the position is taken in the filtered sequence.
find_gt_or_equal_leaf_index(self, key) ==
    LET entries == get_entries(self)
        maybe_index == Position(SelectSeq(entries, is_leaf), key, 1)
    IN IF IsSome(maybe_index) THEN maybe_index[1] ELSE Len(entries)

\* MST::update_entry
update_entry(self, index, entry) ==
    new_tree(self, slice(self, 0, index) \o <<entry>> \o slice_from(self, index + 1))

\* MST::remove_entry
remove_entry(self, index) ==
    new_tree(self, slice(self, 0, index) \o slice_from(self, index + 1))

\* MST::append
append(self, entry) == new_tree(self, get_entries(self) \o <<entry>>)

\* MST::splice_in
splice_in(self, entry, index) ==
    new_tree(self, slice(self, 0, index) \o <<entry>> \o slice_from(self, index))

\* MST::replace_with_split
replace_with_split(self, index, left, leaf, right) ==
    new_tree(self,
        slice(self, 0, index)
        \o (IF IsSome(left) THEN <<SubTree(left[1])>> ELSE <<>>)
        \o <<Leaf(leaf.key, leaf.value)>>
        \o (IF IsSome(right) THEN <<SubTree(right[1])>> ELSE <<>>)
        \o slice_from(self, index + 1))

\* ------------------------------------------------------------------ serialization and CIDs

\* Length of the common prefix of two keys (util::count_prefix_len).
RECURSIVE count_prefix_len(_, _)
count_prefix_len(a, b) ==
    IF a = <<>> \/ b = <<>> \/ a[1] # b[1] THEN 0
    ELSE 1 + count_prefix_len(Tail(a), Tail(b))

\* ipld::cid_for_cbor: the CID is the SHA-256 of the canonical bytes; the
\* hash is taken as collision free, so the CID is modelled by the value hashed.
cid_for_cbor(data) == [node |-> data]

RECURSIVE get_pointer(_)
RECURSIVE serialize_node_data(_, _, _, _)

\* util::serialize_node_data, from position i (1-based) of the entries on:
\* each TreeEntry is a leaf (p = length of the prefix shared with the previous
\* key, k = the rest of the key, v = the value) with the pointer of the subtree
\* that follows it, if one does; a subtree in the place of a leaf is an error.
serialize_node_data(entries, i, last_key, acc) ==
    IF i > Len(entries) THEN Ok(acc)
    ELSE IF ~is_leaf(entries[i]) THEN Err(TwoSubtreesMsg)
    ELSE LET leaf == entries[i]
             p == count_prefix_len(last_key, leaf.key)
             has_tree == i + 1 <= Len(entries) /\ is_tree(entries[i + 1])
         IN Try(IF has_tree THEN get_pointer(entries[i + 1].tree) ELSE Ok(None),
                LAMBDA t :
                serialize_node_data(entries, IF has_tree THEN i + 2 ELSE i + 1, leaf.key,
                     acc \o <<[p |-> p,
                               k |-> SubSeq(leaf.key, p + 1, Len(leaf.key)),
                               v |-> leaf.value,
                               t |-> IF has_tree THEN Some(t) ELSE None]>>))

\* NodeData { l, e } of an entry list: l is the pointer of a leading subtree.
node_data(entries) ==
    LET has_left == entries # <<>> /\ is_tree(entries[1])
    IN Try(IF has_left THEN get_pointer(entries[1].tree) ELSE Ok(None), LAMBDA l :
       Try(serialize_node_data(entries, IF has_left THEN 2 ELSE 1, <<>>, <<>>), LAMBDA e :
       Ok([l |-> IF has_left THEN Some(l) ELSE None, e |-> e])))

\* util::cid_for_entries: the CID of the serialized entries.
cid_for_entries(entries) ==
    Try(node_data(entries), LAMBDA data : Ok(cid_for_cbor(data)))

\* MST::serialize, its cid: the outdated subtrees have their pointers
\* recomputed, then the entries are serialized and hashed.
serialize(self) == cid_for_entries(get_entries(self))

\* MST::get_pointer, its return value: the stored pointer unless it is
\* outdated, else the CID of the serialization.
get_pointer(self) ==
    IF ~self.outdated_pointer THEN Ok(self.pointer) ELSE serialize(self)

\* MST::create
create(entries, layer) ==
    Try(cid_for_entries(entries), LAMBDA pointer : Ok(new(pointer, entries, layer)))

\* ------------------------------------------------------------------ layers

\* util::layer_for_entries: the leading zeros of the first leaf, None when
\* the node holds no leaf.
layer_for_entries(entries) ==
    LET leaves == SelectSeq(entries, is_leaf)
    IN IF leaves = <<>> THEN None ELSE Some(leading_zeros_on_hash(leaves[1].key))

RECURSIVE attempt_get_layer(_)
RECURSIVE first_child_layer(_, _)

\* The loop of attempt_get_layer over the entries: the first subtree whose
\* layer is known gives child layer + 1.
first_child_layer(entries, i) ==
    IF i > Len(entries) THEN None
    ELSE IF is_tree(entries[i])
         THEN Let(attempt_get_layer(entries[i].tree), LAMBDA child_layer :
                  IF IsSome(child_layer) THEN Some(child_layer[1] + 1)
                  ELSE first_child_layer(entries, i + 1))
         ELSE first_child_layer(entries, i + 1)

\* MST::attempt_get_layer
attempt_get_layer(self) ==
    IF IsSome(self.layer) THEN self.layer
    ELSE LET layer == layer_for_entries(get_entries(self))
         IN IF IsSome(layer) THEN layer ELSE first_child_layer(get_entries(self), 1)

\* MST::get_layer, its return value.
get_layer(self) ==
    Let(attempt_get_layer(self), LAMBDA layer : IF IsSome(layer) THEN layer[1] ELSE 0)

\* MST::get_layer, its effect on self: the layer is stored.
with_layer(self) == [self EXCEPT !.layer = Some(get_layer(self))]

\* MST::create_child; it is called with key_zeros < layer only, so layer - 1
\* does not overflow.  The CID of the empty entry list always exists.
create_child(self) == create(<<>>, Some(get_layer(self) - 1)).val

\* create_parent with the parent left on the child's layer (layer instead of
\* layer + 1).
create_parent_same_layer(self) ==
    Try(create(<<SubTree(with_layer(self))>>, Some(get_layer(self))), LAMBDA parent :
        Ok([parent EXCEPT !.outdated_pointer = TRUE]))

\* MST::create_parent
create_parent(self) ==
    Try(create(<<SubTree(with_layer(self))>>, Some(get_layer(self) + 1)), LAMBDA parent :
        Ok([parent EXCEPT !.outdated_pointer = TRUE]))

\* ------------------------------------------------------------------ splits and merges

\* The Option returned for one side of a split: None when it has no entries.
split_output(t) == IF Len(get_entries(t)) = 0 THEN None ELSE Some(t)

RECURSIVE split_around(_, _)

\* MST::split_around: the pair (left, right) of Options.
split_around(self, key) ==
    LET index == find_gt_or_equal_leaf_index(self, key)
        left_data == slice(self, 0, index)
        right_data == slice_from(self, index)
        left == new_tree(self, left_data)
        right == new_tree(self, right_data)
    IN IF left_data # <<>> /\ is_tree(left_data[Len(left_data)])
       THEN LET last == left_data[Len(left_data)].tree
                left1 == remove_entry(left, Len(left_data) - 1)
            IN Let(split_around(last, key), LAMBDA split :
               Let(IF IsSome(split[1]) THEN append(left1, SubTree(split[1][1])) ELSE left1,
                   LAMBDA left2 :
               Let(IF IsSome(split[2]) THEN append(left2, SubTree(split[2][1])) ELSE right,
                   LAMBDA right2 :
               <<split_output(left2), split_output(right2)>>)))
       ELSE <<split_output(left), split_output(right)>>

RECURSIVE append_merge(_, _)

\* MST::append_merge
append_merge(self0, to_merge0) ==
    LET self == with_layer(self0)
        to_merge == with_layer(to_merge0)
        self_entries == get_entries(self)
        to_merge_entries == get_entries(to_merge)
    IN IF get_layer(self0) # get_layer(to_merge0) THEN Err(MergeLayersMsg)
       ELSE IF self_entries # <<>> /\ to_merge_entries # <<>>
               /\ is_tree(self_entries[Len(self_entries)]) /\ is_tree(to_merge_entries[1])
       THEN Try(append_merge(self_entries[Len(self_entries)].tree, to_merge_entries[1].tree),
                LAMBDA merged :
                Ok(new_tree(self,
                        SubSeq(self_entries, 1, Len(self_entries) - 1)
                        \o <<SubTree(merged)>>
                        \o SubSeq(to_merge_entries, 1, 1))))
       ELSE Ok(new_tree(self, self_entries \o to_merge_entries))

\* trim_top that replaces the root by its child once, without trimming the
\* child in turn.
trim_top_once(self) ==
    LET entries == get_entries(self)
    IN IF Len(entries) = 1 /\ is_tree(entries[1]) THEN entries[1].tree ELSE self

RECURSIVE trim_top(_)

\* MST::trim_top
trim_top(self) ==
    LET entries == get_entries(self)
    IN IF Len(entries) = 1 /\ is_tree(entries[1]) THEN trim_top(entries[1].tree) ELSE self

\* ------------------------------------------------------------------ add, get, update, delete

RECURSIVE wrap_parents(_, _)

\* The loop of add over the extra layers: n times create_parent on one side
\* of the split, when that side is Some.
wrap_parents(side, n) ==
    IF n <= 0 \/ ~IsSome(side) THEN Ok(side)
    ELSE Try(create_parent(side[1]), LAMBDA parent : wrap_parents(Some(parent), n - 1))

RECURSIVE add(_, _, _, _)

\* MST::add
add(self0, key, value, known_zeros) ==
    IF ~ensure_valid_mst_key(key) THEN Err(InvalidKeyMsg)
    ELSE
    LET key_zeros == IF IsSome(known_zeros) THEN known_zeros[1] ELSE leading_zeros_on_hash(key)
        self == with_layer(self0)
        layer == get_layer(self0)
        new_leaf == Leaf(key, value)
        index == find_gt_or_equal_leaf_index(self, key)
        prev_node == at_index_minus_one(self, index)
    IN IF key_zeros = layer THEN
           \* it belongs in this layer
           LET found == at_index(self, index)
           IN IF IsSome(found) /\ is_leaf(found[1]) /\ found[1].key = key
              THEN Err(KeyExistsMsg)
              ELSE IF ~IsOk(prev_node) THEN prev_node
              ELSE IF IsSome(prev_node.val) /\ is_tree(prev_node.val[1])
              THEN Let(split_around(prev_node.val[1].tree, key), LAMBDA split_sub_tree :
                       Ok(replace_with_split(self, index - 1, split_sub_tree[1], new_leaf,
                                             split_sub_tree[2])))
              ELSE Ok(splice_in(self, new_leaf, index))
       ELSE IF key_zeros < layer THEN
           \* it belongs on a lower layer
           IF ~IsOk(prev_node) THEN prev_node
           ELSE IF IsSome(prev_node.val) /\ is_tree(prev_node.val[1])
           THEN Try(add(prev_node.val[1].tree, key, value, Some(key_zeros)),
                    LAMBDA new_subtree :
                    Ok(update_entry(self, index - 1, SubTree(new_subtree))))
           ELSE Try(add(create_child(self), key, value, Some(key_zeros)),
                    LAMBDA new_sub_tree :
                    Ok(splice_in(self, SubTree(new_sub_tree), index)))
       ELSE
           \* it belongs on a higher layer: the rest of the tree is pushed down
           LET extra_layers_to_add == key_zeros - layer
           IN Let(split_around(self, key), LAMBDA split :
              Try(wrap_parents(split[1], extra_layers_to_add - 1), LAMBDA left :
              Try(wrap_parents(split[2], extra_layers_to_add - 1), LAMBDA right :
              Try(create((IF IsSome(left) THEN <<SubTree(left[1])>> ELSE <<>>)
                         \o <<new_leaf>>
                         \o (IF IsSome(right) THEN <<SubTree(right[1])>> ELSE <<>>),
                         Some(key_zeros)),
                  LAMBDA new_root : Ok([new_root EXCEPT !.outdated_pointer = TRUE])))))

RECURSIVE get(_, _)

\* MST::get
get(self, key) ==
    LET index == find_gt_or_equal_leaf_index(self, key)
        found == at_index(self, index)
        prev == at_index_minus_one(self, index)
    IN IF IsSome(found) /\ is_leaf(found[1]) /\ found[1].key = key
       THEN Ok(Some(found[1].value))
       ELSE IF ~IsOk(prev) THEN prev
       ELSE IF IsSome(prev.val) /\ is_tree(prev.val[1]) THEN get(prev.val[1].tree, key)
       ELSE Ok(None)

RECURSIVE update(_, _, _)

\* MST::update
update(self, key, value) ==
    IF ~ensure_valid_mst_key(key) THEN Err(InvalidKeyMsg)
    ELSE
    LET index == find_gt_or_equal_leaf_index(self, key)
        found == at_index(self, index)
        prev == at_index_minus_one(self, index)
    IN IF IsSome(found) /\ is_leaf(found[1]) /\ found[1].key = key
       THEN Ok(update_entry(self, index, Leaf(key, value)))
       ELSE IF ~IsOk(prev) THEN prev
       ELSE IF IsSome(prev.val) /\ is_tree(prev.val[1])
       THEN Try(update(prev.val[1].tree, key, value), LAMBDA updated_tree :
                Ok(update_entry(self, index - 1, SubTree(updated_tree))))
       ELSE Err(KeyNotFoundMsg)

RECURSIVE delete_recurse(_, _)

\* MST::delete_recurse
delete_recurse(self, key) ==
    LET index == find_gt_or_equal_leaf_index(self, key)
        found == at_index(self, index)
        prev == at_index_minus_one(self, index)
        next == at_index(self, index + 1)
    IN IF IsSome(found) /\ is_leaf(found[1]) /\ found[1].key = key
       THEN \* found: remove it on this level
            IF ~IsOk(prev) THEN prev
            ELSE IF IsSome(prev.val) /\ is_tree(prev.val[1])
                    /\ IsSome(next) /\ is_tree(next[1])
            THEN Try(append_merge(prev.val[1].tree, next[1].tree), LAMBDA merged :
                     Ok(new_tree(self,
                             slice(self, 0, index - 1)
                             \o <<SubTree(merged)>>
                             \o slice_from(self, index + 2))))
            ELSE Ok(remove_entry(self, index))
       ELSE \* else recurse down to find it
            IF ~IsOk(prev) THEN prev
            ELSE IF IsSome(prev.val) /\ is_tree(prev.val[1])
            THEN Try(delete_recurse(prev.val[1].tree, key), LAMBDA subtree :
                     IF Len(get_entries(subtree)) = 0
                     THEN Ok(remove_entry(self, index - 1))
                     ELSE Ok(update_entry(self, index - 1, SubTree(subtree))))
            ELSE Err(KeyNotFoundMsg)

\* MST::delete
delete(self, key) ==
    Try(delete_recurse(self, key), LAMBDA altered : Ok(trim_top(altered)))

\* ------------------------------------------------------------------ listing

RECURSIVE walk_leaves_from(_, _)
RECURSIVE walk_entries_from(_, _, _)

\* The loop `for i in index..entries.len()` of walk_leaves_from, from
\* position i (1-based) on: a leaf is pushed, a subtree is walked from key.
walk_entries_from(entries, i, key) ==
    IF i > Len(entries) THEN Ok(<<>>)
    ELSE Try(IF is_leaf(entries[i]) THEN Ok(<<entries[i]>>)
             ELSE walk_leaves_from(entries[i].tree, key),
             LAMBDA head :
             Try(walk_entries_from(entries, i + 1, key), LAMBDA rest : Ok(head \o rest)))

\* MST::walk_leaves_from: the leaves collected, or the panic of
\* `entries.get(index - 1).unwrap()`.  At index 0 the subtraction overflows:
\* a build with overflow checks panics there, a build without them wraps to
\* usize::MAX, Vec::get answers None and unwrap panics.
walk_leaves_from(self, key) ==
    LET index == find_gt_or_equal_leaf_index(self, key)
        entries == get_entries(self)
    IN IF index = 0
       THEN Panic(IF overflow_checks THEN SubOverflowMsg ELSE UnwrapNoneMsg)
       ELSE Try(IF is_tree(entries[index]) THEN walk_leaves_from(entries[index].tree, key)
                ELSE Ok(<<>>),
                LAMBDA head :
                Try(walk_entries_from(entries, index + 1, key), LAMBDA rest : Ok(head \o rest)))

RECURSIVE list_loop(_, _, _, _, _, _)

\* The loop of MST::list over the leaves walked, from position i on.
list_loop(leaves, i, count, after, before, vals) ==
    IF i > Len(leaves) THEN vals
    ELSE IF leaves[i].key = after THEN list_loop(leaves, i + 1, count, after, before, vals)
    ELSE IF Len(vals) >= count THEN vals
    ELSE IF IsSome(before) /\ KeyGe(leaves[i].key, before[1]) THEN vals
    ELSE list_loop(leaves, i + 1, count, after, before, Append(vals, leaves[i]))

\* MST::list; after and before are Options.
list(self, count, after, before) ==
    LET after_key == IF IsSome(after) THEN after[1] ELSE <<>>
    IN Try(walk_leaves_from(self, after_key), LAMBDA leaves :
           Ok(list_loop(leaves, 1, count, after_key, before, <<>>)))

\* str::starts_with
starts_with(key, prefix) ==
    Len(prefix) <= Len(key) /\ SubSeq(key, 1, Len(prefix)) = prefix

RECURSIVE list_with_prefix_loop(_, _, _, _, _)

\* The loop of MST::list_with_prefix over the leaves walked.
list_with_prefix_loop(leaves, i, prefix, count, vals) ==
    IF i > Len(leaves) THEN vals
    ELSE IF Len(vals) >= count \/ ~starts_with(leaves[i].key, prefix) THEN vals
    ELSE list_with_prefix_loop(leaves, i + 1, prefix, count, Append(vals, leaves[i]))

\* MST::list_with_prefix
list_with_prefix(self, prefix, count) ==
    Try(walk_leaves_from(self, prefix), LAMBDA leaves :
        Ok(list_with_prefix_loop(leaves, 1, prefix, count, <<>>)))

\* ------------------------------------------------------------------ full tree traversal

\* struct NodeIter: the remaining entries of a node, the iterator of the
\* parent node (an Option) and the entry being iterated (an Option).
NodeIter(entries, parent, this) == [entries |-> entries, parent |-> parent, this |-> this]

RECURSIVE NodeIter_next(_)

\* <NodeIter as Iterator>::next: the item returned (an Option) and the
\* iterator as the call leaves it.
NodeIter_next(self) ==
    IF self.entries = <<>>
    THEN IF IsSome(self.this) /\ is_tree(self.this[1])
         THEN [item |-> self.this, iter |-> [self EXCEPT !.this = None]]
         ELSE IF IsSome(self.parent)
              THEN NodeIter_next(self.parent[1])
              ELSE [item |-> None, iter |-> self]
    ELSE IF is_leaf(Head(self.entries))
         THEN [item |-> Some(Head(self.entries)),
               iter |-> [self EXCEPT !.entries = Tail(self.entries)]]
         ELSE NodeIter_next(NodeIter(get_entries(Head(self.entries).tree),
                                     Some([self EXCEPT !.entries = Tail(self.entries)]),
                                     Some(Head(self.entries))))

\* NodeEntry::iter
iter(entry) == NodeIter(<<entry>>, None, IF is_tree(entry) THEN Some(entry) ELSE None)

\* MST::walk
walk(self) == iter(SubTree(self))

RECURSIVE Items(_)

\* `for entry in it`: the items a NodeIter yields until next returns None.
Items(it) ==
    Let(NodeIter_next(it), LAMBDA r :
        IF IsSome(r.item) THEN <<r.item[1]>> \o Items(r.iter) ELSE <<>>)

RECURSIVE all_cids_from(_, _)
RECURSIVE all_cids_loop(_, _, _, _)

\* The loop of all_cids over the items of self.walk(), from position i on:
\* the value of a leaf is added, for a subtree entry m the set returned by
\* m.clone().all_cids() is added.
all_cids_loop(items, i, cids, active) ==
    IF i > Len(items) THEN Ok(cids)
    ELSE Try(IF is_leaf(items[i]) THEN Ok({items[i].value})
             ELSE all_cids_from(items[i].tree, active),
             LAMBDA found : all_cids_loop(items, i + 1, cids \cup found, active))

\* MST::all_cids with the trees whose all_cids calls are on the stack.  The
\* method changes no state, so a call on a tree whose call is already on the
\* stack repeats that call without end: the recursion has no bound and the
\* stack overflows.
all_cids_from(self, active) ==
    IF self \in active THEN Panic(StackOverflowMsg)
    ELSE Try(all_cids_loop(Items(walk(self)), 1, {}, active \cup {self}), LAMBDA cids :
         Try(get_pointer(self), LAMBDA pointer : Ok(cids \cup {pointer})))

\* MST::all_cids; the CidSet is the set of its CIDs.
all_cids(self) == all_cids_from(self, {})

\* ------------------------------------------------------------------ stored trees

\* The block store seen by an MST: the CIDs that hold a node block, and the
\* CIDs that hold a block of another kind.  A CID in neither set is missing.
Storage(nodes, others) == [nodes |-> nodes, others |-> others]

\* SqlRepoReader::read_obj(&cid, |obj| matches!(obj, Ipld::Node(_))): the
\* NodeData of the block, DataStoreError::MissingBlock when there is no
\* block, DataStoreError::UnexpectedObject when the block is not a node.
read_obj(storage, cid) ==
    IF cid \in storage.nodes THEN Ok(cid.node)
    ELSE IF cid \in storage.others THEN Err(UnexpectedObjectMsg)
    ELSE Err(MissingBlockMsg)

\* MST::load: a pointer-only tree, entries None.
load(cid, layer) ==
    [entries |-> None, layer |-> layer, pointer |-> cid, outdated_pointer |-> FALSE]

RECURSIVE deserialize_tree_entries(_, _, _, _)

\* util::deserialize_node_data over the TreeEntries from position i on: the
\* key is the first p characters of the previous key followed by k; the
\* subtree t, when present, is loaded by its pointer one layer down.
deserialize_tree_entries(e, i, last_key, child_layer) ==
    IF i > Len(e) THEN <<>>
    ELSE LET key == SubSeq(last_key, 1, e[i].p) \o e[i].k
         IN <<Leaf(key, e[i].v)>>
            \o (IF IsSome(e[i].t) THEN <<SubTree(load(e[i].t[1], child_layer))>> ELSE <<>>)
            \o deserialize_tree_entries(e, i + 1, key, child_layer)

\* util::deserialize_node_data
deserialize_node_data(data, layer) ==
    LET child_layer == IF IsSome(layer) THEN Some(layer[1] - 1) ELSE None
    IN (IF IsSome(data.l) THEN <<SubTree(load(data.l[1], child_layer))>> ELSE <<>>)
       \o deserialize_tree_entries(data.e, 1, <<>>, child_layer)

\* MST::get_entries on a pointer-only tree (entries is None): the node is
\* read from the block store, the layer taken from the first TreeEntry
\* (data.e[0], a panic when e is empty) and the entries deserialized.
get_entries_from(storage, self) ==
    Try(read_obj(storage, self.pointer), LAMBDA data :
        IF data.e = <<>> THEN Panic(IndexOutOfBoundsMsg)
        ELSE Ok(deserialize_node_data(data, Some(leading_zeros_on_hash(data.e[1].k)))))

\* struct NodeIterReachable, with the block store its trees read from.
NodeIterReachable(entries, parent, this) ==
    [entries |-> entries, parent |-> parent, this |-> this]

RECURSIVE NodeIterReachable_next(_, _)

\* <NodeIterReachable as Iterator>::next: the item returned, an Option of
\* a Result (or the panic of get_entries in the place of the item), and the
\* iterator as the call leaves it.
NodeIterReachable_next(storage, self) ==
    IF self.entries = <<>>
    THEN IF IsSome(self.this) /\ is_tree(self.this[1])
         THEN [item |-> Some(Ok(self.this[1])), iter |-> [self EXCEPT !.this = None]]
         ELSE IF IsSome(self.parent)
              THEN NodeIterReachable_next(storage, self.parent[1])
              ELSE [item |-> None, iter |-> self]
    ELSE IF is_leaf(Head(self.entries))
         THEN [item |-> Some(Ok(Head(self.entries))),
               iter |-> [self EXCEPT !.entries = Tail(self.entries)]]
         ELSE LET this == Head(self.entries)
                  rest == [self EXCEPT !.entries = Tail(self.entries)]
              IN Let(get_entries_from(storage, this.tree), LAMBDA entries :
                     IF IsOk(entries)
                     THEN NodeIterReachable_next(storage,
                              NodeIterReachable(entries.val, Some(rest), Some(this)))
                     ELSE IF entries.tag = "Err" /\ entries.msg = MissingBlockMsg
                     THEN NodeIterReachable_next(storage, rest)
                     ELSE [item |-> Some(entries), iter |-> rest])

\* NodeEntry::iter_reachable
iter_reachable(entry) ==
    NodeIterReachable(<<entry>>, None, IF is_tree(entry) THEN Some(entry) ELSE None)

\* MST::walk_reachable
walk_reachable(self) == iter_reachable(SubTree(self))

RECURSIVE ReachableItems(_, _)

\* `for entry in it`: the items (Results) a NodeIterReachable yields until
\* next returns None, or the panic that ends the loop.
ReachableItems(storage, it) ==
    Let(NodeIterReachable_next(storage, it), LAMBDA r :
        IF ~IsSome(r.item) THEN Ok(<<>>)
        ELSE IF r.item[1].tag = "Panic" THEN r.item[1]
        ELSE Try(ReachableItems(storage, r.iter), LAMBDA rest : Ok(<<r.item[1]>> \o rest)))

\* ------------------------------------------------------------------ repo import

\* The concurrent requests to com.atproto.repo.importRepo of one repo.
Importers == {"a", "b"}

CommitChainMsg == "commit does not follow the current root"
ExpectedOneRootMsg == "expected one root"
CarFormatMsg == "CarError::CarFormat"

\* The commit the repo starts with.
GenesisRoot == [cid |-> "c0", rev |-> 0]

\* The request bodies: bytes that are not a CAR, and CARs with no root, one
\* root (with or without the commit block of that root) and two roots.
IncomingCars ==
    { [ok |-> FALSE, roots |-> <<>>, blocks |-> {}],
      [ok |-> TRUE, roots |-> <<>>, blocks |-> {"c1"}],
      [ok |-> TRUE, roots |-> <<"c1">>, blocks |-> {"c1"}],
      [ok |-> TRUE, roots |-> <<"c2">>, blocks |-> {"c2"}],
      [ok |-> TRUE, roots |-> <<"c2">>, blocks |-> {}],
      [ok |-> TRUE, roots |-> <<"c1", "c2">>, blocks |-> {"c1", "c2"}] }

\* TID::next_str(None): a timestamp id later than every one handed out before.
TID_next_str(clock) == clock + 1

\* read_car(incoming_car): the roots and blocks of the CAR, or an error.
read_car(incoming_car) ==
    IF incoming_car.ok
    THEN Ok([roots |-> incoming_car.roots, blocks |-> incoming_car.blocks])
    ELSE Err(CarFormatMsg)

\* verify_diff(repo, blocks, root, None, None, None): the commit block of
\* root is read from blocks; the CommitData of the diff has the loaded repo as
\* prev, and the write descriptors are the records of the new commit.  The rev
\* of the CommitData is the one of the commit block; the handler replaces it.
verify_diff(repo, blocks, root) ==
    IF root \notin blocks
    THEN Err(MissingBlockMsg)
    ELSE Ok([commit |-> [cid |-> root, rev |-> repo.rev, prev |-> repo.cid],
             writes |-> {root}])

\* The root update of apply_commit without the comparison with the current row.
update_root_unchecked(root, commit) ==
    Ok([cid |-> commit.cid, rev |-> commit.rev])

\* The root update of apply_commit: a compare-and-set on the repo_root row,
\* accepted iff commit.prev is the current root and commit.rev is later than
\* the current rev.
update_root(root, commit) ==
    IF commit.prev = root.cid /\ commit.rev > root.rev
    THEN Ok([cid |-> commit.cid, rev |-> commit.rev])
    ELSE Err(CommitChainMsg)

NoCar == [ok |-> FALSE, roots |-> <<>>, blocks |-> {}]
NoCommit == [cid |-> "", rev |-> 0, prev |-> ""]

\* An importer that is not running the handler.
NoImport ==
    [pc |-> "idle", rev |-> 0, car |-> NoCar, res |-> GenesisRoot,
     commit |-> NoCommit, writes |-> {}, result |-> Ok(<<>>)]

ImportInit ==
    /\ repo_root = GenesisRoot
    /\ block_store = {GenesisRoot.cid}
    /\ record_index = {}
    /\ tid_clock = 0
    /\ storage_readers = {}
    /\ imports = [p \in Importers |-> NoImport]

\* ------------------------------------------------------------------ BlockMap

\* The values given to BlockMap::add: byte strings.
BlockValues == {<<>>, <<1>>, <<1, 2>>}

\* struct_to_cbor of a byte string: the header of a byte string of that
\* length, then the bytes.
struct_to_cbor(value) == <<64 + Len(value)>> \o value

\* The CIDs used as keys, and the bytes given to BlockMap::set.
BlockCids == {cid_for_cbor(value) : value \in BlockValues}
BlockBytes == {<<>>, <<7, 7>>} \cup {struct_to_cbor(value) : value \in BlockValues}

\* cid.to_string() and Cid::from_str: the multibase text of a CID.
Cid_to_string(cid) == <<"b", cid>>
Cid_from_str(str) ==
    IF Len(str) = 2 /\ str[1] = "b" THEN Ok(str[2]) ELSE Err("invalid CID string")

\* BTreeMap::insert and BTreeMap::remove on a map from strings to bytes.
BTreeMap_insert(map, key, bytes) ==
    [k \in DOMAIN map \cup {key} |-> IF k = key THEN bytes ELSE map[k]]
BTreeMap_remove(map, key) == [k \in DOMAIN map \ {key} |-> map[k]]

\* BlockMap::new
BlockMap_new == [map |-> [k \in {} |-> <<>>]]

\* An insert that keeps the bytes of a key already present.
BlockMap_set_if_absent(self, cid, bytes) ==
    IF Cid_to_string(cid) \in DOMAIN self.map THEN self
    ELSE [map |-> BTreeMap_insert(self.map, Cid_to_string(cid), bytes)]

\* BlockMap::set
BlockMap_set(self, cid, bytes) ==
    [map |-> BTreeMap_insert(self.map, Cid_to_string(cid), bytes)]

\* BlockMap::add: self afterwards and the CID returned.
BlockMap_add(self, value) ==
    Try(Ok(cid_for_cbor(value)), LAMBDA cid :
        Ok([self |-> BlockMap_set(self, cid, struct_to_cbor(value)), cid |-> cid]))

\* BlockMap::get
BlockMap_get(self, cid) ==
    IF Cid_to_string(cid) \in DOMAIN self.map THEN Some(self.map[Cid_to_string(cid)]) ELSE None

\* BlockMap::delete
BlockMap_delete(self, cid) == [map |-> BTreeMap_remove(self.map, Cid_to_string(cid))]

\* The loop of get_many with missing pushed at the front.
RECURSIVE get_many_loop_push_front(_, _, _, _, _)
get_many_loop_push_front(self, cids, i, blocks, missing) ==
    IF i > Len(cids) THEN [blocks |-> blocks, missing |-> missing]
    ELSE Let(BlockMap_get(self, cids[i]), LAMBDA got :
         IF IsSome(got)
         THEN get_many_loop_push_front(self, cids, i + 1, BlockMap_set(blocks, cids[i], got[1]), missing)
         ELSE get_many_loop_push_front(self, cids, i + 1, blocks, <<cids[i]>> \o missing))

\* for cid in cids of BlockMap::get_many, from position i (1-based) on.
RECURSIVE get_many_loop(_, _, _, _, _)
get_many_loop(self, cids, i, blocks, missing) ==
    IF i > Len(cids) THEN [blocks |-> blocks, missing |-> missing]
    ELSE Let(BlockMap_get(self, cids[i]), LAMBDA got :
         IF IsSome(got)
         THEN get_many_loop(self, cids, i + 1, BlockMap_set(blocks, cids[i], got[1]), missing)
         ELSE get_many_loop(self, cids, i + 1, blocks, Append(missing, cids[i])))

\* BlockMap::get_many: self afterwards and the BlocksAndMissing returned.
BlockMap_get_many(self, cids) ==
    Ok([self |-> self, found |-> get_many_loop(self, cids, 1, BlockMap_new, <<>>)])

\* BlockMap::clear
BlockMap_clear(self) == [map |-> [k \in {} |-> <<>>]]

\* for (cid, bytes) in to_add.map.iter() of BlockMap::add_map, over the keys
\* not yet visited.
RECURSIVE add_map_loop(_, _, _)
add_map_loop(self, to_add, keys) ==
    IF keys = {} THEN Ok(self)
    ELSE Let(CHOOSE k \in keys : TRUE, LAMBDA key :
         Try(Cid_from_str(key), LAMBDA cid :
             add_map_loop(BlockMap_set(self, cid, to_add.map[key]), to_add, keys \ {key})))

\* BlockMap::add_map
BlockMap_add_map(self, to_add) == add_map_loop(self, to_add, DOMAIN to_add.map)

\* BlockMap::size
BlockMap_size(self) == Cardinality(DOMAIN self.map)

\* for (_, bytes) in self.map.iter() of BlockMap::byte_size.
RECURSIVE byte_size_loop(_, _, _)
byte_size_loop(self, keys, size) ==
    IF keys = {} THEN size
    ELSE Let(CHOOSE k \in keys : TRUE, LAMBDA key :
         byte_size_loop(self, keys \ {key}, size + Len(self.map[key])))

\* BlockMap::byte_size
BlockMap_byte_size(self) == Ok(byte_size_loop(self, DOMAIN self.map, 0))

\* The BlockMaps given to add_map: up to two blocks.
ToAddMaps ==
    {BlockMap_new}
    \cup {BlockMap_set(BlockMap_new, c, b) : c \in BlockCids, b \in {<<>>, <<7, 7>>}}
    \cup {BlockMap_set(BlockMap_set(BlockMap_new, cid_for_cbor(<<>>), <<7, 7>>), cid_for_cbor(<<1>>), b) :
             b \in {<<>>, struct_to_cbor(<<1>>)}}

NoBlockCall ==
    [op |-> "new", cids |-> <<>>, before |-> BlockMap_new, result |-> Ok(<<>>)]

BlockInit ==
    /\ block_map = BlockMap_new
    /\ block_ref = [c \in BlockCids |-> None]
    /\ block_call = NoBlockCall

\* ------------------------------------------------------------------ JSON, IpldValue and LexValue

\* A value of an enum: the variant and what it holds.
V(tag, val) == [tag |-> tag, val |-> val]

\* Text is a pair: <<"s", name>> is plain text, <<"b", cid>> the text of a
\* CID (Cid_to_string) and <<"m", bytes>> the base64 text of bytes.
Text(name) == <<"s", name>>

\* A CID and bytes that values hold.
SomeCid == cid_for_cbor(<<1>>)
SomeBytes == <<1, 2, 3>>

\* base64.encode, and base64.decode: the plain text "blob" is base64 as
\* well, of the bytes 6e 5a 1b; the other plain texts and the texts of CIDs are
\* not (their lengths are not multiples of four, or they hold other characters).
base64_encode(bytes) == <<"m", bytes>>
base64_decode(str) ==
    IF str[1] = "m" THEN Ok(str[2])
    ELSE IF str = Text("blob") THEN Ok(<<110, 90, 27>>)
    ELSE Err("invalid base64")

\* serde_json::Number: from_f64 keeps a finite f64 as a float, as_f64 gives
\* the number of any representation, as_i64 only the one of an integer.
Number_from_f64(n) == Some([repr |-> "Float", n |-> n])
Number_from_i64(n) == [repr |-> IF n < 0 THEN "NegInt" ELSE "PosInt", n |-> n]
Number_as_f64(number) == Some(number.n)
Number_as_i64(number) == IF number.repr = "Float" THEN None ELSE Some(number.n)

\* Map::get / HashMap::get
Map_get(obj, key) == IF key \in DOMAIN obj THEN Some(obj[key]) ELSE None

\* A map with one entry, and a map with one more entry.
Map_of(key, value) == [k \in {key} |-> value]
Map_insert(obj, key, value) == [k \in DOMAIN obj \cup {key} |-> IF k = key THEN value ELSE obj[k]]

RECURSIVE IpldValue_from_Value(_)
\* impl From<Value> for IpldValue
IpldValue_from_Value(val) ==
    CASE val.tag = "Null" -> V("Null", <<>>)
      [] val.tag = "Bool" -> V("Bool", val.val)
      [] val.tag = "Number" ->
            Let(Number_as_f64(val.val), LAMBDA n : V("Number", IF IsSome(n) THEN n[1] ELSE 0))
      [] val.tag = "String" ->
            Let(Cid_from_str(val.val), LAMBDA cid :
                IF IsOk(cid) THEN V("Cid", cid.val) ELSE V("String", val.val))
      [] val.tag = "Array" ->
            V("Array", [i \in 1..Len(val.val) |-> IpldValue_from_Value(val.val[i])])
      [] val.tag = "Object" ->
            LET obj == val.val
                link == Map_get(obj, Text("$link"))
                bytes == Map_get(obj, Text("$bytes"))
            IN IF /\ Cardinality(DOMAIN obj) = 1
                  /\ IsSome(link) /\ link[1].tag = "String"
                  /\ IsOk(Cid_from_str(link[1].val))
               THEN V("Cid", Cid_from_str(link[1].val).val)
               ELSE IF /\ Cardinality(DOMAIN obj) = 1
                       /\ IsSome(bytes) /\ bytes[1].tag = "String"
                       /\ IsOk(base64_decode(bytes[1].val))
               THEN V("Bytes", base64_decode(bytes[1].val).val)
               ELSE V("Object", [k \in DOMAIN obj |-> IpldValue_from_Value(obj[k])])

RECURSIVE Value_from_IpldValue(_)
\* impl From<IpldValue> for Value
Value_from_IpldValue(val) ==
    CASE val.tag = "Null" -> V("Null", <<>>)
      [] val.tag = "Bool" -> V("Bool", val.val)
      [] val.tag = "Number" ->
            Let(Number_from_f64(val.val), LAMBDA n :
                IF IsSome(n) THEN V("Number", n[1]) ELSE V("Null", <<>>))
      [] val.tag = "String" -> V("String", val.val)
      [] val.tag = "Array" ->
            V("Array", [i \in 1..Len(val.val) |-> Value_from_IpldValue(val.val[i])])
      [] val.tag = "Object" ->
            V("Object", [k \in DOMAIN val.val |-> Value_from_IpldValue(val.val[k])])
      [] val.tag = "Cid" ->
            V("Object", Map_of(Text("$link"), V("String", Cid_to_string(val.val))))
      [] val.tag = "Bytes" ->
            V("Object", Map_of(Text("$bytes"), V("String", base64_encode(val.val))))

RECURSIVE IpldValue_eq(_, _)
\* impl PartialEq for IpldValue
IpldValue_eq(a, b) ==
    CASE a.tag = "Array" /\ b.tag = "Array" ->
            /\ Len(a.val) = Len(b.val)
            /\ \A i \in 1..Len(a.val) : IpldValue_eq(a.val[i], b.val[i])
      [] a.tag = "Object" /\ b.tag = "Object" ->
            /\ Cardinality(DOMAIN a.val) = Cardinality(DOMAIN b.val)
            /\ \A k \in DOMAIN a.val : k \in DOMAIN b.val /\ IpldValue_eq(a.val[k], b.val[k])
      [] a.tag = b.tag /\ a.tag \notin {"Array", "Object"} -> a.val = b.val
      [] OTHER -> FALSE

\* BlobRef::new
BlobRef_new(ref_, mime_type, size) ==
    [ref_ |-> ref_, mime_type |-> mime_type, size |-> size,
     original |-> V("Typed", [type_ |-> Text("blob"), ref_ |-> ref_,
                              mime_type |-> mime_type, size |-> size])]

\* impl TryFrom<JsonBlobRef> for BlobRef, for JsonBlobRef::Untyped
BlobRef_from_untyped(untyped) ==
    Try(Cid_from_str(untyped.cid), LAMBDA ref_ :
        Ok([ref_ |-> ref_, mime_type |-> untyped.mime_type, size |-> 0 - 1,
            original |-> V("Untyped", untyped)]))

RECURSIVE IpldValue_from_LexValue(_)
\* impl From<LexValue> for IpldValue
IpldValue_from_LexValue(value) ==
    CASE value.tag = "Ipld" -> value.val
      [] value.tag = "Blob" ->
            V("Object",
              Map_insert(Map_insert(Map_insert(Map_of(
                  Text("$type"), V("String", Text("blob"))),
                  Text("ref"), V("String", Cid_to_string(value.val.ref_))),
                  Text("mimeType"), V("String", value.val.mime_type)),
                  Text("size"), V("Number", value.val.size)))
      [] value.tag = "Array" ->
            V("Array", [i \in 1..Len(value.val) |-> IpldValue_from_LexValue(value.val[i])])
      [] value.tag = "Object" ->
            V("Object", [k \in DOMAIN value.val |-> IpldValue_from_LexValue(value.val[k])])

\* impl From<&LexValue> for serde_json::Value
Value_from_LexValue(val) ==
    Let(IpldValue_from_LexValue(val), LAMBDA ipld :
        CASE ipld.tag = "Bool" -> V("Bool", ipld.val)
          [] ipld.tag = "Number" ->
                Let(Number_from_f64(ipld.val), LAMBDA n :
                    IF IsSome(n) THEN V("Number", n[1]) ELSE V("Null", <<>>))
          [] ipld.tag = "String" -> V("String", ipld.val)
          [] ipld.tag = "Null" -> V("Null", <<>>)
          [] ipld.tag = "Array" ->
                V("Array", [i \in 1..Len(ipld.val) |-> Value_from_IpldValue(ipld.val[i])])
          [] ipld.tag = "Object" ->
                V("Object", [k \in DOMAIN ipld.val |-> Value_from_IpldValue(ipld.val[k])])
          [] ipld.tag = "Cid" ->
                V("Object", Map_of(Text("$link"), V("String", Cid_to_string(ipld.val))))
          [] ipld.tag = "Bytes" ->
                V("Object", Map_of(Text("$bytes"), V("String", base64_encode(ipld.val)))))

\* The blob test of From<&serde_json::Value> for LexValue: the BlobRef of an
\* object with "$type": "blob", a ref that is the text of a CID, a mimeType
\* that is a string and a size that is an integer.
blob_of_object(obj) ==
    LET type_val == Map_get(obj, Text("$type"))
        ref_val == Map_get(obj, Text("ref"))
        mime_type == Map_get(obj, Text("mimeType"))
        size == Map_get(obj, Text("size"))
    IN IF /\ IsSome(type_val) /\ type_val[1] = V("String", Text("blob"))
          /\ IsSome(ref_val) /\ IsSome(mime_type) /\ IsSome(size)
          /\ ref_val[1].tag = "String" /\ mime_type[1].tag = "String"
          /\ size[1].tag = "Number" /\ IsSome(Number_as_i64(size[1].val))
          /\ IsOk(Cid_from_str(ref_val[1].val))
       THEN Some(BlobRef_new(Cid_from_str(ref_val[1].val).val, mime_type[1].val,
                             Number_as_i64(size[1].val)[1]))
       ELSE None

RECURSIVE LexValue_from_Value(_)
\* impl From<&serde_json::Value> for LexValue
LexValue_from_Value(val) ==
    CASE val.tag = "Bool" -> V("Ipld", V("Bool", val.val))
      [] val.tag = "Number" ->
            Let(Number_as_f64(val.val), LAMBDA n :
                V("Ipld", V("Number", IF IsSome(n) THEN n[1] ELSE 0)))
      [] val.tag = "String" ->
            Let(Cid_from_str(val.val), LAMBDA cid :
                IF IsOk(cid) THEN V("Ipld", V("Cid", cid.val))
                ELSE V("Ipld", V("String", val.val)))
      [] val.tag = "Null" -> V("Ipld", V("Null", <<>>))
      [] val.tag = "Array" ->
            V("Array", [i \in 1..Len(val.val) |-> LexValue_from_Value(val.val[i])])
      [] val.tag = "Object" ->
            LET obj == val.val
                blob == blob_of_object(obj)
                link == Map_get(obj, Text("$link"))
            IN IF IsSome(blob) THEN V("Blob", blob[1])
               ELSE IF /\ Cardinality(DOMAIN obj) = 1
                       /\ IsSome(link) /\ link[1].tag = "String"
                       /\ IsOk(Cid_from_str(link[1].val))
               THEN V("Ipld", V("Cid", Cid_from_str(link[1].val).val))
               ELSE V("Object", [k \in DOMAIN obj |-> LexValue_from_Value(obj[k])])

RECURSIVE LexValue_eq(_, _)
\* impl PartialEq for LexValue
LexValue_eq(a, b) ==
    CASE a.tag = "Ipld" /\ b.tag = "Ipld" -> IpldValue_eq(a.val, b.val)
      [] a.tag = "Blob" /\ b.tag = "Blob" -> a.val = b.val
      [] a.tag = "Array" /\ b.tag = "Array" ->
            /\ Len(a.val) = Len(b.val)
            /\ \A i \in 1..Len(a.val) : LexValue_eq(a.val[i], b.val[i])
      [] a.tag = "Object" /\ b.tag = "Object" ->
            /\ Cardinality(DOMAIN a.val) = Cardinality(DOMAIN b.val)
            /\ \A k \in DOMAIN a.val : k \in DOMAIN b.val /\ LexValue_eq(a.val[k], b.val[k])
      [] OTHER -> FALSE

\* ------------------------------------------------------------------ Lex and Ipld of the repo

\* serde_json::from_value::<Cid>: a JSON string that is the text of a CID.
Cid_from_json(json_val) ==
    IF json_val.tag = "String" THEN Cid_from_str(json_val.val) ELSE Err("invalid type")

\* serde_json::to_value(blob.original) and serde_json::from_value of a blob:
\* the JSON object of a blob reference, typed (ref, mimeType, size) or untyped
\* (cid, mimeType).
Blob_to_value(blob) == blob.original
Blob_from_value(json) ==
    IF json.tag = "Object"
       /\ \/ {Text("$type"), Text("ref"), Text("mimeType"), Text("size")} \subseteq DOMAIN json.val
          \/ {Text("cid"), Text("mimeType")} \subseteq DOMAIN json.val
    THEN Ok([original |-> json])
    ELSE Err("Invalid blob reference format")

\* JsonValue::get: the member of an object, None on any other value.
Json_get(json, key) == IF json.tag = "Object" THEN Map_get(json.val, key) ELSE None

RECURSIVE Ipld_from_Lex(_)
\* impl From<Lex> for Ipld
Ipld_from_Lex(val) ==
    CASE val.tag = "List" -> V("List", [i \in 1..Len(val.val) |-> Ipld_from_Lex(val.val[i])])
      [] val.tag = "Map" -> V("Map", [k \in DOMAIN val.val |-> Ipld_from_Lex(val.val[k])])
      [] val.tag = "Blob" -> V("Json", Blob_to_value(val.val))
      [] val.tag = "Ipld" ->
            IF val.val.tag = "Json"
            THEN Let(Cid_from_json(val.val.val), LAMBDA cid :
                     IF IsOk(cid) THEN V("Link", cid.val) ELSE V("Json", val.val.val))
            ELSE val.val

RECURSIVE Lex_from_Ipld(_)
\* impl From<Ipld> for Lex; a failed expect is the value "Panic", which ends
\* the conversions around it (LexPanics).
Lex_from_Ipld(val) ==
    CASE val.tag = "List" -> V("List", [i \in 1..Len(val.val) |-> Lex_from_Ipld(val.val[i])])
      [] val.tag = "Map" -> V("Map", [k \in DOMAIN val.val |-> Lex_from_Ipld(val.val[k])])
      [] val.tag = "Json"
         /\ \/ Json_get(val.val, Text("$type")) = Some(V("String", Text("blob")))
            \/ /\ IsSome(Json_get(val.val, Text("cid")))
               /\ Json_get(val.val, Text("cid"))[1].tag = "String"
               /\ IsSome(Json_get(val.val, Text("mimeType")))
               /\ Json_get(val.val, Text("mimeType"))[1].tag = "String" ->
            Let(Blob_from_value(val.val), LAMBDA blob :
                IF IsOk(blob) THEN V("Blob", blob.val)
                ELSE V("Panic", "Issue deserializing blob"))
      [] OTHER -> V("Ipld", val)

RECURSIVE LexPanics(_)
\* A conversion to this Lex value has panicked.
LexPanics(lex) ==
    CASE lex.tag = "Panic" -> TRUE
      [] lex.tag = "List" -> \E i \in 1..Len(lex.val) : LexPanics(lex.val[i])
      [] lex.tag = "Map" -> \E k \in DOMAIN lex.val : LexPanics(lex.val[k])
      [] OTHER -> FALSE

\* ------------------------------------------------------------------ the values converted

Texts == {Text("blob"), Text("image/jpeg"), Cid_to_string(SomeCid), base64_encode(SomeBytes)}

\* IpldValues without floats: the scalars, and arrays and objects of scalars.
IpldScalars ==
    {V("Null", <<>>), V("Bool", TRUE), V("Number", 42), V("Cid", SomeCid), V("Bytes", SomeBytes)}
    \cup {V("String", t) : t \in Texts}

ObjectKeys == {Text("key"), Text("$link"), Text("$bytes")}

IpldValues ==
    IpldScalars
    \cup {V("Array", <<>>)}
    \cup {V("Array", <<a>>) : a \in IpldScalars}
    \cup {V("Array", <<V("String", Text("blob")), a>>) : a \in IpldScalars}
    \cup {V("Object", Map_of(k, a)) : k \in ObjectKeys, a \in IpldScalars}
    \cup {V("Object", Map_insert(Map_of(Text("key"), V("Null", <<>>)), Text("$link"), a)) :
             a \in IpldScalars}

\* JSON values: scalars, arrays, objects with one and two members, and the
\* objects of a blob reference with an integer and with a float size.
JsonScalars ==
    {V("Null", <<>>), V("Bool", TRUE), V("Number", Number_from_i64(42)),
     V("Number", Number_from_f64(42)[1])}
    \cup {V("String", t) : t \in Texts}

JsonBlob(size) ==
    V("Object",
      Map_insert(Map_insert(Map_insert(Map_of(
          Text("$type"), V("String", Text("blob"))),
          Text("ref"), V("String", Cid_to_string(SomeCid))),
          Text("mimeType"), V("String", Text("image/jpeg"))),
          Text("size"), V("Number", size)))

JsonUntypedBlob ==
    V("Object", Map_insert(Map_of(Text("cid"), V("String", Cid_to_string(SomeCid))),
                           Text("mimeType"), V("String", Text("image/jpeg"))))

JsonValues ==
    JsonScalars
    \cup {V("Array", <<>>)}
    \cup {V("Array", <<a>>) : a \in JsonScalars}
    \cup {V("Object", Map_of(k, a)) : k \in ObjectKeys, a \in JsonScalars}
    \cup {V("Object", Map_insert(Map_of(Text("key"), V("Null", <<>>)), Text("$link"), a)) :
             a \in JsonScalars}
    \cup {JsonBlob(Number_from_i64(1024)), JsonBlob(Number_from_f64(1024)[1]), JsonUntypedBlob}

\* LexValues: Ipld scalars, blobs, and arrays and objects of them.
LexLeaves ==
    {V("Ipld", a) : a \in IpldScalars}
    \cup {V("Blob", BlobRef_new(SomeCid, Text("image/jpeg"), 1024)),
          V("Blob", BlobRef_from_untyped([cid |-> Cid_to_string(SomeCid),
                                          mime_type |-> Text("image/jpeg")]).val)}

LexValues ==
    LexLeaves
    \cup {V("Array", <<>>)}
    \cup {V("Array", <<a>>) : a \in LexLeaves}
    \cup {V("Array", <<V("Ipld", V("Number", 42)), a>>) : a \in LexLeaves}
    \cup {V("Object", Map_of(Text("key"), a)) : a \in LexLeaves}
    \cup {V("Object", Map_insert(Map_of(Text("key"), V("Ipld", V("Null", <<>>))), Text("text"), a)) :
             a \in LexLeaves}

\* Lex values of the repo: wrapped Ipld values, blobs, and lists and maps of them.
WrappedIplds ==
    {V("String", t) : t \in Texts}
    \cup {V("Bytes", SomeBytes), V("Link", SomeCid), V("Null", <<>>),
          V("List", <<>>), V("List", <<V("String", Text("blob"))>>),
          V("Map", Map_of(Text("key"), V("String", Text("blob")))),
          V("Json", V("String", Text("blob"))),
          V("Json", V("String", Cid_to_string(SomeCid))),
          V("Json", V("Object", Map_of(Text("$type"), V("String", Text("blob")))))}

LexBlobs ==
    {V("Blob", Blob_from_value(JsonBlob(Number_from_i64(1024))).val),
     V("Blob", Blob_from_value(JsonUntypedBlob).val)}

LexNodes == {V("Ipld", a) : a \in WrappedIplds} \cup LexBlobs

Lexes ==
    LexNodes
    \cup {V("List", <<>>)}
    \cup {V("List", <<a>>) : a \in LexNodes}
    \cup {V("List", <<V("Ipld", V("String", Text("blob"))), a>>) : a \in LexNodes}
    \cup {V("Map", Map_of(Text("key"), a)) : a \in LexNodes}

NoConv ==
    [op |-> "none", input |-> V("Null", <<>>), between |-> V("Null", <<>>),
     output |-> V("Null", <<>>)]

ConvInit == conv = NoConv

\* ------------------------------------------------------------------ MstWalker

WalkDoneMsg == "Walk is done"
NoLayerMsg == "Could not identify layer of walk"
StepIntoEmptyMsg == "Tried to step into a node with 0 entries which is invalid"
StepIntoLeafMsg == "No tree at pointer, cannot step into"
RootLeafMsg == "The root of the tree cannot be a leaf"

\* enum WalkerStatus: WalkerStatusDone(true), or WalkerStatusProgress with
\* the entry pointed at, the node being walked (None while curr is the root)
\* and the index of curr in that node.
WalkerStatusDone == [tag |-> "Done", done |-> TRUE]
WalkerStatusProgress(curr, walking, index) ==
    [tag |-> "Progress", done |-> FALSE, curr |-> curr, walking |-> walking, index |-> index]
IsDone(status) == status.tag = "Done"

\* Option::unwrap_or
unwrap_or(o, default) == IF IsSome(o) THEN o[1] ELSE default

\* MstWalker::new
MstWalker_new(root) ==
    [stack |-> <<>>, status |-> WalkerStatusProgress(SubTree(root), None, 0)]

\* The walker as a call leaves it, with the Result the call returns.
Returned(self, result) == [self |-> self, result |-> result]

\* layer() that answers 0 when the walk is done.
MstWalker_layer_zero_when_done(self) ==
    IF IsDone(self.status) THEN Ok(0)
    ELSE IF IsSome(self.status.walking) THEN Ok(unwrap_or(self.status.walking[1].layer, 0))
    ELSE IF is_tree(self.status.curr) THEN Ok(unwrap_or(self.status.curr.tree.layer, 0) + 1)
    ELSE Err(NoLayerMsg)

\* MstWalker::layer
MstWalker_layer(self) ==
    IF IsDone(self.status) THEN Err(WalkDoneMsg)
    ELSE IF IsSome(self.status.walking) THEN Ok(unwrap_or(self.status.walking[1].layer, 0))
    ELSE IF is_tree(self.status.curr) THEN Ok(unwrap_or(self.status.curr.tree.layer, 0) + 1)
    ELSE Err(NoLayerMsg)

RECURSIVE MstWalker_step_over(_)

\* MstWalker::step_over: the next entry of the node walked becomes curr; at
\* the end of the node the status on top of the stack is restored and stepped
\* over in turn, and with an empty stack the walk is done.
MstWalker_step_over(self) ==
    IF IsDone(self.status) THEN Returned(self, Ok(<<>>))
    ELSE IF IsSome(self.status.walking)
    THEN LET entries == get_entries(self.status.walking[1])
             index == self.status.index + 1
         IN IF index < Len(entries)
            THEN Returned([self EXCEPT !.status.index = index,
                                       !.status.curr = entries[index + 1]], Ok(<<>>))
            ELSE IF self.stack # <<>>
            THEN MstWalker_step_over([stack |-> SubSeq(self.stack, 1, Len(self.stack) - 1),
                                      status |-> self.stack[Len(self.stack)]])
            ELSE Returned([self EXCEPT !.status = WalkerStatusDone], Ok(<<>>))
    ELSE \* stepping over the root: done
         Returned([self EXCEPT !.status = WalkerStatusDone], Ok(<<>>))

\* step_into that does not push the current status on the stack.
MstWalker_step_into_without_push(self) ==
    IF IsDone(self.status) THEN Returned(self, Ok(<<>>))
    ELSE IF ~is_tree(self.status.curr)
    THEN Returned(self, Err(IF IsSome(self.status.walking) THEN StepIntoLeafMsg ELSE RootLeafMsg))
    ELSE Let(at_index(self.status.curr.tree, 0), LAMBDA next :
         IF IsSome(next)
         THEN Returned([self EXCEPT !.status =
                           WalkerStatusProgress(next[1], Some(self.status.curr.tree), 0)], Ok(<<>>))
         ELSE IF IsSome(self.status.walking) THEN Returned(self, Err(StepIntoEmptyMsg))
         ELSE Returned([self EXCEPT !.status = WalkerStatusDone], Ok(<<>>)))

\* MstWalker::step_into: the first entry of the subtree pointed at becomes
\* curr and the status left is pushed on the stack; from the root nothing is
\* pushed, and an empty root ends the walk.
MstWalker_step_into(self) ==
    IF IsDone(self.status) THEN Returned(self, Ok(<<>>))
    ELSE IF IsSome(self.status.walking)
    THEN IF is_tree(self.status.curr)
         THEN Let(at_index(self.status.curr.tree, 0), LAMBDA next :
              IF IsSome(next)
              THEN Returned([stack |-> Append(self.stack, self.status),
                             status |-> WalkerStatusProgress(next[1],
                                            Some(self.status.curr.tree), 0)], Ok(<<>>))
              ELSE Returned(self, Err(StepIntoEmptyMsg)))
         ELSE Returned(self, Err(StepIntoLeafMsg))
    ELSE IF is_tree(self.status.curr)
         THEN Let(at_index(self.status.curr.tree, 0), LAMBDA next :
              IF IsSome(next)
              THEN Returned([self EXCEPT !.status =
                                WalkerStatusProgress(next[1], Some(self.status.curr.tree), 0)],
                            Ok(<<>>))
              ELSE Returned([self EXCEPT !.status = WalkerStatusDone], Ok(<<>>)))
         ELSE Returned(self, Err(RootLeafMsg))

\* MstWalker::advance
MstWalker_advance(self) ==
    IF IsDone(self.status) THEN Returned(self, Ok(<<>>))
    ELSE IF is_leaf(self.status.curr) THEN MstWalker_step_over(self)
    ELSE MstWalker_step_into(self)

\* The most leading zeros among the keys of a non-empty set.
MaxZeros(S) ==
    CHOOSE z \in {leading_zeros_on_hash(k) : k \in S} : \A k \in S : leading_zeros_on_hash(k) <= z

RECURSIVE EntriesFor(_, _)

\* The entries of the MST node of the given layer over the keys of S: the
\* keys of that layer are its leaves, the keys between two of them form the
\* subtree between them, one layer down.
EntriesFor(S, layer) ==
    IF S = {} THEN <<>>
    ELSE LET top == {k \in S : leading_zeros_on_hash(k) = layer}
         IN IF top = {} THEN <<SubTree(create(EntriesFor(S, layer - 1), Some(layer - 1)).val)>>
            ELSE LET key == CHOOSE k \in top : \A x \in top : ~KeyLt(x, k)
                     left == {x \in S : KeyLt(x, key)}
                     right == {x \in S : KeyLt(key, x)}
                 IN (IF left = {} THEN <<>>
                     ELSE <<SubTree(create(EntriesFor(left, layer - 1), Some(layer - 1)).val)>>)
                    \o <<Leaf(key, IF Len(key) = 1 THEN [record |-> 1] ELSE [record |-> 2])>>
                    \o EntriesFor(right, layer)

\* The MST over the keys of S.
TreeOf(S) ==
    IF S = {} THEN create(<<>>, None).val
    ELSE create(EntriesFor(S, MaxZeros(S)), Some(MaxZeros(S))).val

\* The trees given to MstWalker::new: the MST of every set of keys.
WalkTrees == {TreeOf(S) : S \in SUBSET Keys}

\* A walker and what is observed of it: the tree it was made for, the
\* leaves that became curr since, and the last call with its Result.
WalkRecord(root, walker, seen, op, result) ==
    [root |-> root, walker |-> walker, seen |-> seen, op |-> op,
     tag |-> result.tag, msg |-> result.msg,
     layer |-> IF op = "layer" /\ IsOk(result) THEN Some(result.val) ELSE None]

WalkInit == mst_walker = WalkRecord(create(<<>>, None).val, MstWalker_new(create(<<>>, None).val), <<>>, "none", Ok(<<>>))

\* ------------------------------------------------------------------ find_blob_refs

RECURSIVE btreemap_values(_, _)
\* btreemap.values() over the keys not yet visited (the model's keys carry
\* no order: CHOOSE fixes one).
btreemap_values(map, keys) ==
    IF keys = {} THEN <<>>
    ELSE Let(CHOOSE k \in keys : TRUE, LAMBDA key :
         <<map[key]>> \o btreemap_values(map, keys \ {key}))

RECURSIVE find_blob_refs(_, _)
RECURSIVE flat_map_find_blob_refs(_, _, _)

\* items.iter().flat_map(|item| find_blob_refs(&Lex::Ipld(item.clone()), layer + 1)).collect()
\* from position i of the items on
flat_map_find_blob_refs(items, i, layer) ==
    IF i > Len(items) THEN <<>>
    ELSE find_blob_refs(V("Ipld", items[i]), layer + 1) \o flat_map_find_blob_refs(items, i + 1, layer)

\* import_repo::find_blob_refs
find_blob_refs(val, layer) ==
    IF layer > 32 THEN <<>>
    ELSE CASE val.tag = "Ipld" ->
                (CASE val.val.tag \in {"Link", "Bytes"} -> <<>>
                   [] val.val.tag = "List" -> flat_map_find_blob_refs(val.val.val, 1, layer)
                   [] val.val.tag = "Map" ->
                        flat_map_find_blob_refs(btreemap_values(val.val.val, DOMAIN val.val.val),
                                                1, layer)
                   [] OTHER -> <<>>)
           [] val.tag = "Blob" -> <<>>
           [] val.tag = "List" -> <<>>
           [] val.tag = "Map" -> <<>>

RECURSIVE NestedIpld(_, _)
\* An Ipld value under n lists, and a Lex value under n lists.
NestedIpld(n, ipld) == IF n = 0 THEN ipld ELSE V("List", <<NestedIpld(n - 1, ipld)>>)

RECURSIVE NestedLex(_, _)
NestedLex(n, lex) == IF n = 0 THEN lex ELSE V("List", <<NestedLex(n - 1, lex)>>)

\* The values searched: the Lex values of the repo, and values under up to
\* 34 lists.
Searched ==
    Lexes
    \cup {V("Ipld", NestedIpld(n, V("Link", SomeCid))) : n \in 1..34}
    \cup {NestedLex(n, blob) : n \in 1..34, blob \in LexBlobs}

\* ------------------------------------------------------------------ format_seq_commit

\* A block of n bytes.
BlockOfLen(n) == [i \in 1..n |-> 0]

\* The header of a CBOR array of n items, and the encoding of one u8.
cbor_array_header(n) ==
    IF n < 24 THEN <<128 + n>>
    ELSE IF n < 256 THEN <<152, n>>
    ELSE IF n < 65536 THEN <<153, n \div 256, n % 256>>
    ELSE <<154, n \div 16777216, (n \div 65536) % 256, (n \div 256) % 256, n % 256>>
cbor_u8(b) == IF b < 24 THEN <<b>> ELSE <<24, b>>

RECURSIVE cbor_u8s(_, _)
cbor_u8s(bytes, i) == IF i > Len(bytes) THEN <<>> ELSE cbor_u8(bytes[i]) \o cbor_u8s(bytes, i + 1)

\* struct_to_cbor of an Option<&Vec<u8>>: None is null (0xf6); a Vec<u8> is
\* serialized as a sequence, so Some(bytes) is the header of an array of
\* that length, then one unsigned integer per byte.
struct_to_cbor_option(value) ==
    IF value = None THEN <<246>>
    ELSE cbor_array_header(Len(value[1])) \o cbor_u8s(value[1], 1)

\* cid_for_cbor of an Option<&Vec<u8>>: the CID of the bytes above, which is
\* the CID of no block of a repo (a commit block is a CBOR map).
cid_for_cbor_option(value) == [option |-> value]

\* BlockMap::add with value: Option<&Vec<u8>>, as format_seq_commit calls it.
BlockMap_add_option(self, value) ==
    Try(Ok(cid_for_cbor_option(value)), LAMBDA cid :
        Ok([self |-> BlockMap_set(self, cid, struct_to_cbor_option(value)), cid |-> cid]))

\* car::blocks_to_car_file(root, blocks): a CAR with the root in its
\* header and one (CID, bytes) section per entry of the map.
blocks_to_car_file(root, blocks) ==
    Ok([roots |-> IF IsSome(root) THEN <<root[1]>> ELSE <<>>,
        blocks |-> {<<str[2], blocks.map[str]>> : str \in DOMAIN blocks.map}])

InvalidAtUriMsg == "Invalid at uri"

\* AtUri::new(uri, None)
AtUri_new(uri) == IF uri.ok THEN Ok(uri) ELSE Err(InvalidAtUriMsg)

\* util::format_data_key
format_data_key(collection, rkey) == <<collection, "/", rkey>>

\* The body of `for w in writes` of format_seq_commit for one write: the op
\* pushed, or the error of AtUri::new.
format_seq_commit_op(w) ==
    Try(AtUri_new(w.uri), LAMBDA uri :
    Let(format_data_key(uri.collection, uri.rkey), LAMBDA path :
        CASE w.kind = "Create" -> Ok([action |-> "Create", path |-> path, cid |-> Some(w.cid)])
          [] w.kind = "Update" -> Ok([action |-> "Update", path |-> path, cid |-> Some(w.cid)])
          [] w.kind = "Delete" -> Ok([action |-> "Delete", path |-> path, cid |-> None])))

\* for w in writes of format_seq_commit: the error of the first write that
\* has one, else the ops pushed and the CidSet of the blobs of the creates and
\* the updates.
format_seq_commit_writes(writes) ==
    Let([i \in 1..Len(writes) |-> format_seq_commit_op(writes[i])], LAMBDA pushed :
    Let({i \in 1..Len(writes) : ~IsOk(pushed[i])}, LAMBDA failed :
        IF failed # {} THEN pushed[CHOOSE i \in failed : \A j \in failed : i <= j]
        ELSE Ok([ops |-> [i \in 1..Len(writes) |-> pushed[i].val],
                 blobs |-> UNION {writes[i].blobs :
                                     i \in {j \in 1..Len(writes) : writes[j].kind # "Delete"}}])))

\* The event of format_seq_commit.
CommitEvt(too_big, did, commit_data, ops, car_slice, blobs) ==
    [rebase |-> FALSE, too_big |-> too_big, repo |-> did, commit |-> commit_data.cid,
     prev |-> commit_data.prev, rev |-> commit_data.rev, since |-> commit_data.since,
     ops |-> ops, blocks |-> car_slice, blobs |-> blobs]

\* format_seq_commit up to the event, with blobs still the CidSet (to_list
\* gives its CIDs in an order that is not fixed).
format_seq_commit(did, commit_data, writes) ==
    Try(BlockMap_add_map(BlockMap_new, commit_data.new_blocks), LAMBDA with_new :
    Try(BlockMap_add_map(with_new, commit_data.relevant_blocks), LAMBDA blocks_to_send :
    Try(BlockMap_byte_size(blocks_to_send), LAMBDA byte_size :
        IF Len(writes) > 200 \/ byte_size > 1000000
        THEN Try(BlockMap_add_option(BlockMap_new, BlockMap_get(blocks_to_send, commit_data.cid)),
                 LAMBDA just_root :
             Try(blocks_to_car_file(Some(commit_data.cid), just_root.self), LAMBDA car_slice :
                 Ok(CommitEvt(TRUE, did, commit_data, <<>>, car_slice, {}))))
        ELSE Try(format_seq_commit_writes(writes), LAMBDA done :
             Try(blocks_to_car_file(Some(commit_data.cid), blocks_to_send), LAMBDA car_slice :
                 Ok(CommitEvt(FALSE, did, commit_data, done.ops, car_slice, done.blobs)))))))

\* The commits formatted: the commit block of a value, other blocks, and a
\* block that takes new_blocks to 1,000,000 bytes with a block of two bytes.
SeqCid(value) == cid_for_cbor(value)
SeqBlock(value) == struct_to_cbor(value)
SeqBlocks(pairs) ==
    [map |-> [str \in {Cid_to_string(p[1]) : p \in pairs} |->
                (CHOOSE p \in pairs : Cid_to_string(p[1]) = str)[2]]]

NewBlockMaps ==
    {SeqBlocks({}),
     SeqBlocks({<<SeqCid(<<1>>), SeqBlock(<<1>>)>>}),
     SeqBlocks({<<SeqCid(<<1, 2>>), SeqBlock(<<1, 2>>)>>}),
     SeqBlocks({<<SeqCid(<<1>>), SeqBlock(<<1>>)>>, <<SeqCid(<<1, 2>>), SeqBlock(<<1, 2>>)>>}),
     SeqBlocks({<<SeqCid(<<1>>), SeqBlock(<<1>>)>>, <<SeqCid(<<>>), BlockOfLen(999998)>>}),
     SeqBlocks({<<SeqCid(<<1, 2>>), SeqBlock(<<1, 2>>)>>, <<SeqCid(<<>>), BlockOfLen(999998)>>})}

RelevantBlockMaps ==
    {SeqBlocks({}),
     SeqBlocks({<<SeqCid(<<1>>), SeqBlock(<<1>>)>>}),
     SeqBlocks({<<SeqCid(<<1, 2>>), SeqBlock(<<1, 2>>)>>}),
     SeqBlocks({<<SeqCid(<<>>), SeqBlock(<<>>)>>})}

CommitDatas ==
    {[cid |-> cid, rev |-> 2, since |-> Some(1), prev |-> None,
      new_blocks |-> new_blocks, relevant_blocks |-> relevant_blocks] :
        cid \in {SeqCid(<<1>>), SeqCid(<<1, 2>>)},
        new_blocks \in NewBlockMaps, relevant_blocks \in RelevantBlockMaps}

SeqUri(ok, rkey) == [ok |-> ok, collection |-> "app.bsky.feed.post", rkey |-> rkey]
SeqCreate == [kind |-> "Create", uri |-> SeqUri(TRUE, 1), cid |-> SeqCid(<<>>), blobs |-> {SeqCid(<<1>>)}]
SeqUpdate == [kind |-> "Update", uri |-> SeqUri(TRUE, 2), cid |-> SeqCid(<<1>>), blobs |-> {SeqCid(<<1, 2>>)}]
SeqDelete == [kind |-> "Delete", uri |-> SeqUri(TRUE, 3), cid |-> SeqCid(<<>>), blobs |-> {}]
SeqBadUri == [kind |-> "Create", uri |-> SeqUri(FALSE, 4), cid |-> SeqCid(<<>>), blobs |-> {}]

WriteLists ==
    {<<>>, <<SeqCreate>>, <<SeqCreate, SeqUpdate, SeqDelete>>, <<SeqCreate, SeqBadUri>>,
     [i \in 1..200 |-> SeqCreate], [i \in 1..201 |-> SeqDelete], [i \in 1..201 |-> SeqBadUri]}

\* The record of a call: what the call was given (the number of writes, the
\* bytes of the blocks to send, the block they hold for commit_data.cid) and
\* its result with the event before its encoding.
SeqRecord(op, commit_data, writes, result) ==
    [op |-> op, commit |-> commit_data.cid, writes |-> Len(writes),
     byte_size |-> BlockMap_byte_size(
                       BlockMap_add_map(BlockMap_add_map(BlockMap_new, commit_data.new_blocks).val,
                                        commit_data.relevant_blocks).val).val,
     commit_block |-> BlockMap_get(
                       BlockMap_add_map(BlockMap_add_map(BlockMap_new, commit_data.new_blocks).val,
                                        commit_data.relevant_blocks).val, commit_data.cid),
     tag |-> result.tag, msg |-> result.msg,
     evt |-> IF IsOk(result) THEN Some(result.val) ELSE None]

SeqInit ==
    seq_evt = SeqRecord("none", [cid |-> SeqCid(<<1>>), new_blocks |-> BlockMap_new,
                                 relevant_blocks |-> BlockMap_new], <<>>, Err(""))

\* ------------------------------------------------------------------ the state machine

\* MST::create(storage, None, None): the empty tree a repo starts from.
EmptyTree == create(<<>>, None).val

NoCall(name) ==
    [op |-> name, key |-> <<>>, value |-> None, tag |-> "Ok", msg |-> "",
     before |-> EmptyTree, after |-> EmptyTree]

InitState ==
    /\ tree = EmptyTree
    /\ ref = [k \in Keys |-> None]
    /\ call = NoCall("new")
    /\ adds_only = TRUE
    /\ proper = TRUE
    /\ steps = 0
    /\ ImportInit
    /\ BlockInit
    /\ ConvInit
    /\ WalkInit
    /\ SeqInit

\* Any build.
Init == overflow_checks \in BOOLEAN /\ InitState

\* A build without overflow checks (the release profile).
InitRelease == overflow_checks = FALSE /\ InitState

\* A call can be made: the bound is not reached and the last call did not panic.
CanCall == steps < MaxOps /\ call.tag # "Panic"

\* The record of a call on self = tree with result r; after is self as the
\* call leaves it.
CallRecord(name, key, value, r, after) ==
    [op |-> name, key |-> key, value |-> value, tag |-> r.tag, msg |-> r.msg,
     before |-> tree, after |-> after]

\* mst = mst.add(key, value, None): the caller keeps the returned tree, or
\* the tree it had when the call fails.
Add(key, value) ==
    /\ CanCall
    /\ \E r \in {add(tree, key, value, None)},
          after \in {IF ensure_valid_mst_key(key) THEN with_layer(tree) ELSE tree} :
          /\ tree' = IF IsOk(r) THEN r.val ELSE after
          /\ ref' = IF IsOk(r) /\ key \in Keys THEN [ref EXCEPT ![key] = Some(value)] ELSE ref
          /\ call' = CallRecord("add", key, Some(value), r, after)
          /\ adds_only' = (adds_only /\ IsOk(r) /\ key \in Keys /\ ref[key] = None)
          /\ proper' = (proper /\ (IsOk(r) => key \in Keys /\ ref[key] = None))
    /\ steps' = steps + 1
    /\ UNCHANGED <<overflow_checks, non_mst_vars>>

\* mst = mst.update(key, value)
Update(key, value) ==
    /\ CanCall
    /\ \E r \in {update(tree, key, value)} :
          /\ tree' = IF IsOk(r) THEN r.val ELSE tree
          /\ ref' = IF IsOk(r) /\ key \in Keys THEN [ref EXCEPT ![key] = Some(value)] ELSE ref
          /\ call' = CallRecord("update", key, Some(value), r, tree)
          /\ proper' = (proper /\ (IsOk(r) => key \in Keys /\ ref[key] # None))
    /\ adds_only' = FALSE
    /\ steps' = steps + 1
    /\ UNCHANGED <<overflow_checks, non_mst_vars>>

\* mst = mst.delete(key)
Delete(key) ==
    /\ CanCall
    /\ \E r \in {delete(tree, key)} :
          /\ tree' = IF IsOk(r) THEN r.val ELSE tree
          /\ ref' = IF IsOk(r) /\ key \in Keys THEN [ref EXCEPT ![key] = None] ELSE ref
          /\ call' = CallRecord("delete", key, None, r, tree)
          /\ proper' = (proper /\ (IsOk(r) => key \in Keys /\ ref[key] # None))
    /\ adds_only' = FALSE
    /\ steps' = steps + 1
    /\ UNCHANGED <<overflow_checks, non_mst_vars>>

Next ==
    \/ \E key \in AllKeys, value \in Values : Add(key, value)
    \/ \E key \in AllKeys, value \in Values : Update(key, value)
    \/ \E key \in AllKeys : Delete(key)

Spec == Init /\ [][Next]_vars

SpecRelease == InitRelease /\ [][Next]_vars

\* ------------------------------------------------------------------ inner_import_repo, step by step

\* The handler returned (or panicked) with result r.
Done(p, r) == [imports[p] EXCEPT !.pc = "done", !.result = r]

\* A request arrives: now and rev are taken before anything is read.
ImportRepo(p, incoming_car) ==
    /\ imports[p].pc \in {"idle", "done"}
    /\ tid_clock < MaxImports
    /\ tid_clock' = TID_next_str(tid_clock)
    /\ imports' = [imports EXCEPT ![p] =
           [NoImport EXCEPT !.pc = "read_car", !.rev = TID_next_str(tid_clock),
                            !.car = incoming_car]]
    /\ UNCHANGED <<repo_root, block_store, record_index, storage_readers, non_import_vars>>

\* if let Ok(mut car) = read_car(incoming_car).await: an unreadable CAR skips
\* the body and the handler ends.  The Err("expected one root") of the roots
\* test is a value that is not returned, so the body goes on.
ReadCar(p) ==
    /\ imports[p].pc = "read_car"
    /\ \E r \in {read_car(imports[p].car)} :
          imports' = [imports EXCEPT ![p] =
              IF IsOk(r) THEN [imports[p] EXCEPT !.pc = "select_root"]
              ELSE Done(p, Ok(<<>>))]
    /\ UNCHANGED <<repo_root, block_store, record_index, tid_clock, storage_readers, non_import_vars>>

\* The repo_root row is selected and the repo loaded at its cid.  No lock is
\* taken.
SelectRoot(p) ==
    /\ imports[p].pc = "select_root"
    /\ imports' = [imports EXCEPT ![p] = [imports[p] EXCEPT !.pc = "verify_diff", !.res = repo_root]]
    /\ UNCHANGED <<repo_root, block_store, record_index, tid_clock, storage_readers, non_import_vars>>

\* verify_diff(repo, &mut car.blocks, car.roots[0], ...).await? and then
\* diff.commit.rev = rev.
VerifyDiff(p) ==
    /\ imports[p].pc = "verify_diff"
    /\ \E r \in {IF imports[p].car.roots = <<>> THEN Panic(IndexOutOfBoundsMsg)
                 ELSE verify_diff(imports[p].res, imports[p].car.blocks, imports[p].car.roots[1])} :
          imports' = [imports EXCEPT ![p] =
              IF IsOk(r)
              THEN [imports[p] EXCEPT !.pc = "storage_read",
                                      !.commit = [r.val.commit EXCEPT !.rev = imports[p].rev],
                                      !.writes = r.val.writes]
              ELSE Done(p, r)]
    /\ UNCHANGED <<repo_root, block_store, record_index, tid_clock, storage_readers, non_import_vars>>

\* actor_store.storage.read().await: a shared guard, given to any number of
\* imports at once.
StorageRead(p) ==
    /\ imports[p].pc = "storage_read"
    /\ storage_readers' = storage_readers \cup {p}
    /\ imports' = [imports EXCEPT ![p] = [imports[p] EXCEPT !.pc = "put_blocks"]]
    /\ UNCHANGED <<repo_root, block_store, record_index, tid_clock, non_import_vars>>

\* apply_commit, first part: the new blocks are persisted.
ApplyCommitBlocks(p) ==
    /\ imports[p].pc = "put_blocks"
    /\ block_store' = block_store \cup {imports[p].commit.cid}
    /\ imports' = [imports EXCEPT ![p] = [imports[p] EXCEPT !.pc = "update_root"]]
    /\ UNCHANGED <<repo_root, record_index, tid_clock, storage_readers, non_import_vars>>

\* apply_commit, second part: the root update; then the guard is dropped and
\* ? returns the error of a refused commit.
ApplyCommitRoot(p) ==
    /\ imports[p].pc = "update_root"
    /\ \E r \in {update_root(repo_root, imports[p].commit)} :
          /\ repo_root' = IF IsOk(r) THEN r.val ELSE repo_root
          /\ imports' = [imports EXCEPT ![p] =
                 IF IsOk(r) THEN [imports[p] EXCEPT !.pc = "index_writes"] ELSE Done(p, r)]
    /\ storage_readers' = storage_readers \ {p}
    /\ UNCHANGED <<block_store, record_index, tid_clock, non_import_vars>>

\* for write in diff.writes: the record table follows the write descriptors.
IndexWrites(p) ==
    /\ imports[p].pc = "index_writes"
    /\ record_index' = record_index \cup imports[p].writes
    /\ imports' = [imports EXCEPT ![p] = Done(p, Ok(<<>>))]
    /\ UNCHANGED <<repo_root, block_store, tid_clock, storage_readers, non_import_vars>>

NextImport ==
    \/ \E p \in Importers, incoming_car \in IncomingCars : ImportRepo(p, incoming_car)
    \/ \E p \in Importers : ReadCar(p)
    \/ \E p \in Importers : SelectRoot(p)
    \/ \E p \in Importers : VerifyDiff(p)
    \/ \E p \in Importers : StorageRead(p)
    \/ \E p \in Importers : ApplyCommitBlocks(p)
    \/ \E p \in Importers : ApplyCommitRoot(p)
    \/ \E p \in Importers : IndexWrites(p)

\* Concurrent imports into one repo; the tree of the MST calls is left alone.
SpecImport == InitRelease /\ [][NextImport]_vars

\* ------------------------------------------------------------------ BlockMap calls

BlockCall(name, cids, r) == [op |-> name, cids |-> cids, before |-> block_map, result |-> r]

\* block_map.add(value)
BlockAdd(value) ==
    /\ \E r \in {BlockMap_add(block_map, value)} :
          /\ block_map' = IF IsOk(r) THEN r.val.self ELSE block_map
          /\ block_call' = BlockCall("add", <<>>, IF IsOk(r) THEN Ok(r.val.cid) ELSE r)
    /\ block_ref' = [block_ref EXCEPT ![cid_for_cbor(value)] = Some(struct_to_cbor(value))]
    /\ UNCHANGED non_block_vars

\* block_map.set(cid, bytes)
BlockSet(cid, bytes) ==
    /\ block_map' = BlockMap_set(block_map, cid, bytes)
    /\ block_call' = BlockCall("set", <<cid>>, Ok(<<>>))
    /\ block_ref' = [block_ref EXCEPT ![cid] = Some(bytes)]
    /\ UNCHANGED non_block_vars

\* block_map.delete(cid)
BlockDelete(cid) ==
    /\ block_map' = BlockMap_delete(block_map, cid)
    /\ block_call' = BlockCall("delete", <<cid>>, Ok(<<>>))
    /\ block_ref' = [block_ref EXCEPT ![cid] = None]
    /\ UNCHANGED non_block_vars

\* block_map.get_many(cids)
BlockGetMany(cids) ==
    /\ \E r \in {BlockMap_get_many(block_map, cids)} :
          /\ block_map' = r.val.self
          /\ block_call' = BlockCall("get_many", cids, Ok(r.val.found))
    /\ UNCHANGED <<block_ref, non_block_vars>>

\* block_map.clear()
BlockClear ==
    /\ block_map' = BlockMap_clear(block_map)
    /\ block_call' = BlockCall("clear", <<>>, Ok(<<>>))
    /\ block_ref' = [c \in BlockCids |-> None]
    /\ UNCHANGED non_block_vars

\* block_map.add_map(to_add)
BlockAddMap(to_add) ==
    /\ \E r \in {BlockMap_add_map(block_map, to_add)} :
          /\ block_map' = IF IsOk(r) THEN r.val ELSE block_map
          /\ block_call' = BlockCall("add_map", <<>>, IF IsOk(r) THEN Ok(<<>>) ELSE r)
    /\ block_ref' = [c \in BlockCids |->
                        IF Cid_to_string(c) \in DOMAIN to_add.map
                        THEN Some(to_add.map[Cid_to_string(c)]) ELSE block_ref[c]]
    /\ UNCHANGED non_block_vars

\* The requests of get_many: up to MaxCids CIDs, repeats allowed.
CidRequests == UNION {[1..n -> BlockCids] : n \in 0..MaxCids}

NextBlock ==
    \/ \E value \in BlockValues : BlockAdd(value)
    \/ \E cid \in BlockCids, bytes \in BlockBytes : BlockSet(cid, bytes)
    \/ \E cid \in BlockCids : BlockDelete(cid)
    \/ \E cids \in CidRequests : BlockGetMany(cids)
    \/ BlockClear
    \/ \E to_add \in ToAddMaps : BlockAddMap(to_add)

\* Calls on one BlockMap; the tree and the repo are left alone.
SpecBlock == InitRelease /\ [][NextBlock]_vars

\* ------------------------------------------------------------------ conversions

Conv(name, input, between, output) ==
    [op |-> name, input |-> input, between |-> between, output |-> output]

\* let json: Value = v.into(); let back: IpldValue = json.into();
IpldToJsonAndBack(v) ==
    /\ \E json \in {Value_from_IpldValue(v)} :
          conv' = Conv("ipld_json_ipld", v, json, IpldValue_from_Value(json))
    /\ UNCHANGED non_conv_vars

\* IpldValue::from(json)
JsonToIpldValue(json) ==
    /\ conv' = Conv("json_ipld", json, json, IpldValue_from_Value(json))
    /\ UNCHANGED non_conv_vars

\* LexValue::from(&json)
JsonToLexValue(json) ==
    /\ conv' = Conv("json_lex", json, json, LexValue_from_Value(json))
    /\ UNCHANGED non_conv_vars

\* let json: serde_json::Value = (&v).into(); let roundtrip = LexValue::from(&json);
LexToJsonAndBack(v) ==
    /\ \E json \in {Value_from_LexValue(v)} :
          conv' = Conv("lex_json_lex", v, json, LexValue_from_Value(json))
    /\ UNCHANGED non_conv_vars

\* let ipld = Ipld::from(lex.clone()); let lex_back = Lex::from(ipld);
LexToIpldAndBack(lex) ==
    /\ \E ipld \in {Ipld_from_Lex(lex)} :
          conv' = Conv("lex_ipld_lex", lex, ipld, Lex_from_Ipld(ipld))
    /\ UNCHANGED non_conv_vars

NextConv ==
    \/ \E v \in IpldValues : IpldToJsonAndBack(v)
    \/ \E json \in JsonValues : JsonToIpldValue(json)
    \/ \E json \in JsonValues : JsonToLexValue(json)
    \/ \E v \in LexValues : LexToJsonAndBack(v)
    \/ \E lex \in Lexes : LexToIpldAndBack(lex)

\* Conversions of values drawn from the sets above.
SpecConv == InitRelease /\ [][NextConv]_vars

\* ------------------------------------------------------------------ MstWalker calls

\* The leaves met, with curr added when the call made a leaf curr.
SeenAfter(before, after) ==
    IF ~IsDone(after.status) /\ is_leaf(after.status.curr) /\ after # before
    THEN Append(mst_walker.seen, after.status.curr)
    ELSE mst_walker.seen

\* One call of a method of the walker that returns a walker and a Result.
WalkCall(op, r) ==
    /\ mst_walker' = WalkRecord(mst_walker.root, r.self, SeenAfter(mst_walker.walker, r.self), op, r.result)
    /\ UNCHANGED <<overflow_checks, non_walk_vars>>

\* let mut walker = MstWalker::new(root)
WalkNew(root) ==
    /\ mst_walker' = WalkRecord(root, MstWalker_new(root), <<>>, "new", Ok(<<>>))
    /\ UNCHANGED <<overflow_checks, non_walk_vars>>

\* walker.layer()
WalkLayer ==
    /\ mst_walker' = WalkRecord(mst_walker.root, mst_walker.walker, mst_walker.seen, "layer", MstWalker_layer(mst_walker.walker))
    /\ UNCHANGED <<overflow_checks, non_walk_vars>>

\* walker.step_over()
WalkStepOver == \E r \in {MstWalker_step_over(mst_walker.walker)} : WalkCall("step_over", r)

\* walker.step_into()
WalkStepInto == \E r \in {MstWalker_step_into(mst_walker.walker)} : WalkCall("step_into", r)

\* walker.advance()
WalkAdvance == \E r \in {MstWalker_advance(mst_walker.walker)} : WalkCall("advance", r)

\* The first walker of a behaviour.
WalkStart(root) == mst_walker.op = "none" /\ WalkNew(root)

\* A walker used through any of its methods, in any order.
NextWalk ==
    \/ \E root \in WalkTrees : WalkNew(root)
    \/ WalkLayer
    \/ WalkStepOver
    \/ WalkStepInto
    \/ WalkAdvance

SpecWalk == InitRelease /\ [][NextWalk]_vars

\* One walker, advanced until it is done: `while !done { walker.advance() }`.
\* The loop goes on as long as the walker is not done, so advance is taken
\* whenever it changes the walker.
NextAdvance ==
    \/ \E root \in WalkTrees : WalkStart(root)
    \/ WalkAdvance

SpecAdvance == InitRelease /\ [][NextAdvance]_vars /\ WF_vars(WalkAdvance)

\* ------------------------------------------------------------------ observations of a tree

RECURSIVE InOrderLeaves(_)

\* The leaves of a tree in order: left subtree, then each leaf followed by
\* its right subtree, recursively.
InOrderLeaves(t) ==
    LET F[i \in 0..Len(t.entries)] ==
            IF i = 0 THEN <<>>
            ELSE F[i - 1] \o (IF is_leaf(t.entries[i]) THEN <<t.entries[i]>>
                              ELSE InOrderLeaves(t.entries[i].tree))
    IN F[Len(t.entries)]

\* The keys held by a tree.
KeysOf(t) == {InOrderLeaves(t)[i].key : i \in 1..Len(InOrderLeaves(t))}

RECURSIVE Nodes(_)

\* The nodes of a tree: the root and the node of every subtree entry.
Nodes(t) ==
    {t} \cup UNION {Nodes(t.entries[i].tree) : i \in {j \in 1..Len(t.entries) : is_tree(t.entries[j])}}

\* The (key, value) pairs of the reference map.
RefPairs == {<<k, ref[k][1]>> : k \in {x \in Keys : IsSome(ref[x])}}

\* The orders in which the pairs of a set can be inserted.
Orders(S) ==
    {q \in [1..Cardinality(S) -> S] : \A i, j \in 1..Cardinality(S) : q[i] = q[j] => i = j}

RECURSIVE AddAll(_, _, _)

\* add called once per pair of q from position i on, each call on the tree
\* the previous one returned.
AddAll(t, q, i) ==
    IF i > Len(q) THEN Ok(t)
    ELSE Try(add(t, q[i][1], q[i][2], None), LAMBDA r : AddAll(r, q, i + 1))

\* Two trees have root CIDs, and they are equal.
SameRoot(t1, t2) == get_pointer(t1) = get_pointer(t2)
HasRoot(t) == IsOk(get_pointer(t))

\* The shape of a tree: its keys in their nodes, positions and layers, the
\* values and the pointers left out.
RECURSIVE Shape(_)
Shape(t) ==
    [layer |-> t.layer,
     entries |-> [i \in 1..Len(t.entries) |->
                    IF is_leaf(t.entries[i]) THEN <<"Leaf", t.entries[i].key>>
                    ELSE <<"MST", Shape(t.entries[i].tree)>>]]

\* The last call was `name` and it returned Ok.
Succeeded(name) == call.op = name /\ call.tag = "Ok"

\* ------------------------------------------------------------------ format_seq_commit calls

\* format_seq_commit(did, commit_data, writes), with blobs.to_list() in one of
\* the orders a CidSet can give. The function keeps nothing between calls:
\* a behaviour holds one call.
FormatSeqCommit(commit_data, writes) ==
    /\ seq_evt.op = "none"
    /\ \E r \in {format_seq_commit("did:plc:alice", commit_data, writes)} :
          \E blobs \in (IF IsOk(r) THEN Orders(r.val.blobs) ELSE {<<>>}) :
             seq_evt' = SeqRecord("format_seq_commit", commit_data, writes,
                                  IF IsOk(r) THEN Ok([r.val EXCEPT !.blobs = blobs]) ELSE r)
    /\ UNCHANGED non_seq_vars

NextSeq == \E commit_data \in CommitDatas, writes \in WriteLists : FormatSeqCommit(commit_data, writes)

\* Commits formatted for the sequencer.
SpecSeq == InitRelease /\ [][NextSeq]_vars

\* ------------------------------------------------------------------ find_blob_refs calls

\* find_blob_refs(&val, 0)
FindBlobRefs(val) ==
    /\ conv' = Conv("find_blob_refs", val, V("Null", <<>>), find_blob_refs(val, 0))
    /\ UNCHANGED non_conv_vars

NextFind == \E val \in Searched : FindBlobRefs(val)

\* Searches for blob references in values drawn from the set above.
SpecFind == InitRelease /\ [][NextFind]_vars

\* ------------------------------------------------------------------ claims

\* C1: starting from the empty tree and calling add (known_zeros = None) once
\* per (key, value) pair of a set of distinct keys gives the same root CID
\* (get_pointer) in every insertion order.  Stated on the tree built by the
\* behaviour against every other order of the same pairs, where both builds
\* succeed and both roots serialize.
C1_InsertionOrderIndependent ==
    adds_only =>
        \A q \in Orders(RefPairs) :
            LET r == AddAll(EmptyTree, q, 1)
            IN (IsOk(r) /\ HasRoot(r.val) /\ HasRoot(tree)) => SameRoot(r.val, tree)

\* C2: after any sequence of add, update and delete calls from the empty
\* tree, get(k) returns Some(v) exactly when the reference map maps k to v and
\* None for every other key.
C2_GetAgreesWithReferenceMap ==
    proper => \A k \in Keys : get(tree, k) = Ok(ref[k])

\* C3: add does not change the tree it is called on: after t2 = t1.add(k, v)
\* succeeds, t1.get(k) is None, every other key of t1 has the value it had,
\* and t1.get_pointer() differs from t2.get_pointer().
C3_AddLeavesSelfUnchanged ==
    (Succeeded("add") /\ call.key \notin KeysOf(call.before)) =>
        /\ get(call.after, call.key) = Ok(None)
        /\ \A k \in Keys \ {call.key} : get(call.after, k) = get(call.before, k)
        /\ get_pointer(call.after) # get_pointer(tree)

\* C4: two sequences of successful add, update and delete calls from the
\* empty tree that end with the same key -> value mapping end with the same
\* root CID, also when every key was deleted and keys were added again.
\* Stated on a history with an update or a delete against the add-only
\* histories that build the same mapping.
C4_HistoryIndependent ==
    (proper /\ ~adds_only /\ call.tag # "Panic") =>
        \A q \in Orders(RefPairs) :
            LET r == AddAll(EmptyTree, q, 1)
            IN (IsOk(r) /\ HasRoot(r.val) /\ HasRoot(tree)) => SameRoot(r.val, tree)

\* C5: in every tree reachable from the empty tree by add (known_zeros =
\* None), update and delete, every leaf held in a node of layer L has a key
\* whose leading-zero count is L, and every subtree entry of that node is a
\* node of layer exactly L - 1.
C5_LayerInvariant ==
    \A n \in Nodes(tree) : \A i \in 1..Len(n.entries) :
        IF is_leaf(n.entries[i])
        THEN leading_zeros_on_hash(n.entries[i].key) = get_layer(n)
        ELSE get_layer(n.entries[i].tree) = get_layer(n) - 1

\* C5, its case: an add has returned a root of layer 2 that holds a leaf and
\* a subtree whose own entry is a subtree holding a leaf (a parent made by
\* create_parent over the node that was split).
C5_Witness ==
    /\ Succeeded("add")
    /\ get_layer(tree) = 2
    /\ \E i, j \in 1..Len(tree.entries) :
        /\ is_leaf(tree.entries[i])
        /\ is_tree(tree.entries[j])
        /\ \E m \in 1..Len(tree.entries[j].tree.entries) :
            /\ is_tree(tree.entries[j].tree.entries[m])
            /\ InOrderLeaves(tree.entries[j].tree.entries[m].tree) # <<>>

\* C6: in every tree reachable by add, update and delete the in-order
\* sequence of leaf keys is strictly ascending, no key occurring twice.
C6_InOrderKeysAscending ==
    proper =>
        \A i \in 1..(Len(InOrderLeaves(tree)) - 1) :
            KeyLt(InOrderLeaves(tree)[i].key, InOrderLeaves(tree)[i + 1].key)

\* C7: in every node of every tree reachable by add, update and delete no
\* two consecutive entries are both subtrees.
C7_NoAdjacentSubtrees ==
    proper =>
        \A n \in Nodes(tree) : \A i \in 1..(Len(n.entries) - 1) :
            ~(is_tree(n.entries[i]) /\ is_tree(n.entries[i + 1]))

\* C8: add(key, value) on a tree that already holds key, at whatever layer
\* the key sits, returns an error and produces no new tree.
C8_AddExistingKeyFails ==
    (call.op = "add" /\ call.key \in KeysOf(call.before)) =>
        /\ call.tag = "Err"
        /\ call.msg = KeyExistsMsg
        /\ tree = call.after

\* C9: update(k, v) and delete(k) on a tree that does not hold k return the
\* error "Could not find a record with key" and produce no new tree.
C9_UpdateDeleteMissingKeyFails ==
    (call.op \in {"update", "delete"} /\ call.key \in Keys
        /\ call.key \notin KeysOf(call.before)) =>
        /\ call.tag = "Err"
        /\ call.msg = KeyNotFoundMsg
        /\ tree = call.before

\* C10: update(k, v) on a tree holding k returns a tree with the same keys in
\* the same nodes, positions and layers, in which get(k) = v and every other
\* key keeps its value.
C10_UpdateInPlace ==
    (call.op = "update" /\ call.key \in KeysOf(call.before)) =>
        /\ call.tag = "Ok"
        /\ Shape(tree) = Shape(call.before)
        /\ get(tree, call.key) = Ok(call.value)
        /\ \A k \in Keys \ {call.key} : get(tree, k) = get(call.before, k)

\* C11: delete(k) on a tree holding k returns a tree in which get(k) is None
\* and get(k') is what it was for every other key k', also when the removed
\* leaf lay between two subtrees.
C11_DeleteRemovesOnlyKey ==
    (call.op = "delete" /\ call.key \in KeysOf(call.before)) =>
        /\ call.tag = "Ok"
        /\ get(tree, call.key) = Ok(None)
        /\ \A k \in Keys \ {call.key} : get(tree, k) = get(call.before, k)

\* The root has exactly one entry and that entry is a subtree.
SingleSubtreeRoot(t) == Len(get_entries(t)) = 1 /\ is_tree(get_entries(t)[1])

\* C12: the tree returned by delete never has a root whose entries are
\* exactly one subtree and no leaf; whenever the removal leaves such a root,
\* the returned root is the trimmed child, of a lower layer than the root the
\* delete was called on.
C12_DeleteTrimsTop ==
    Succeeded("delete") =>
        /\ ~SingleSubtreeRoot(tree)
        /\ SingleSubtreeRoot(delete_recurse(call.before, call.key).val) =>
               get_layer(tree) < get_layer(call.before)

\* C12, its case: a delete left a root holding one subtree whose only entry
\* was a subtree again, and returned the node two layers down.
C12_Witness ==
    /\ Succeeded("delete")
    /\ SingleSubtreeRoot(delete_recurse(call.before, call.key).val)
    /\ SingleSubtreeRoot(get_entries(delete_recurse(call.before, call.key).val)[1].tree)
    /\ get_layer(tree) = get_layer(call.before) - 2
    /\ InOrderLeaves(tree) # <<>>

\* MST::get_pointer, its effect on self: the recomputed CID is stored and the
\* flag cleared; self is left alone when the pointer is current or the
\* serialization fails.
get_pointer_self(self) ==
    IF ~self.outdated_pointer THEN self
    ELSE Let(serialize(self), LAMBDA r :
             IF IsOk(r) THEN [self EXCEPT !.pointer = r.val, !.outdated_pointer = FALSE]
             ELSE self)

RECURSIVE Fresh(_)

\* A tree with no stored pointer trusted: every node marked outdated, so
\* that get_pointer serializes every node from its current entries.
Fresh(t) ==
    [t EXCEPT !.outdated_pointer = TRUE,
              !.entries = [i \in 1..Len(t.entries) |->
                              IF is_tree(t.entries[i])
                              THEN SubTree(Fresh(t.entries[i].tree))
                              ELSE t.entries[i]]]

\* The last call was an add, update or delete that returned a tree.
ReturnedTree == call.op \in {"add", "update", "delete"} /\ call.tag = "Ok"

\* C13: get_pointer() on a tree returned by add, update or delete returns the
\* CID of the canonical serialization of the tree's current entries, every
\* descendant's CID recomputed, never a stale CID; afterwards
\* outdated_pointer is false and a repeated get_pointer() returns the same CID.
C13_GetPointerIsCanonical ==
    ReturnedTree =>
        /\ IsOk(get_pointer(tree))
        /\ get_pointer(tree) = get_pointer(Fresh(tree))
        /\ ~get_pointer_self(tree).outdated_pointer
        /\ get_pointer(get_pointer_self(tree)) = get_pointer(tree)

\* C13 on the trees that have a serialization.
C13_OnSerializableTrees ==
    (ReturnedTree /\ IsOk(get_pointer(Fresh(tree)))) =>
        /\ get_pointer(tree) = get_pointer(Fresh(tree))
        /\ ~get_pointer_self(tree).outdated_pointer
        /\ get_pointer(get_pointer_self(tree)) = get_pointer(tree)

RECURSIVE SortKeys(_)

\* The keys of a set in ascending order.
SortKeys(S) ==
    IF S = {} THEN <<>>
    ELSE LET m == CHOOSE x \in S : \A y \in S : ~KeyLt(y, x)
         IN <<m>> \o SortKeys(S \ {m})

\* The leaves of the reference map with a key in S, in ascending key order,
\* the first count of them at most.
RefLeaves(S, count) ==
    LET keys == SortKeys({k \in S : IsSome(ref[k])})
        n == IF count < Len(keys) THEN count ELSE Len(keys)
    IN [i \in 1..n |-> Leaf(keys[i], ref[keys[i]][1])]

\* The arguments given to list and list_with_prefix.
Counts == 0..MaxCount
OptKeys == {None} \cup {Some(k) : k \in AllKeys}

\* C14: list(count, after, before) returns, in ascending key order, the first
\* min(count, n) of the n leaves with after < key (all when after is absent)
\* and key < before (when before is given), and completes without failure on
\* every tree, also when after is absent or below every key.
C14_ListReturnsRange ==
    proper =>
        \A count \in Counts, after \in OptKeys, before \in OptKeys :
            list(tree, count, after, before) =
                Ok(RefLeaves({k \in Keys : /\ IsSome(after) => KeyLt(after[1], k)
                                           /\ IsSome(before) => KeyLt(k, before[1])},
                             count))

\* C15: list_with_prefix(prefix, count) returns, in ascending key order, the
\* first min(count, m) of the m leaves whose key starts with prefix, and no
\* leaf whose key does not start with it.
C15_ListWithPrefixReturnsPrefixed ==
    proper =>
        \A prefix \in AllKeys, count \in Counts :
            list_with_prefix(tree, prefix, count) =
                Ok(RefLeaves({k \in Keys : starts_with(k, prefix)}, count))

\* The number of times x occurs in the sequence w.
Count(w, x) == Cardinality({i \in 1..Len(w) : w[i] = x})

\* The entries of the tree that are reachable from the root, the root as an
\* entry included: every subtree node and every leaf.
EntriesOf(t) ==
    {SubTree(n) : n \in Nodes(t)}
    \cup UNION {{n.entries[i] : i \in {j \in 1..Len(n.entries) : is_leaf(n.entries[j])}} : n \in Nodes(t)}

\* C16: walk() yields every subtree node of the tree, the root included,
\* exactly once and every leaf exactly once, and yields each subtree node
\* before any entry the node contains (depth-first pre-order).
C16_WalkPreOrderOnce ==
    proper =>
        LET w == Items(walk(tree))
        IN /\ \A e \in EntriesOf(tree) : Count(w, e) = 1
           /\ \A i \in 1..Len(w) : w[i] \in EntriesOf(tree)
           /\ \A i, j \in 1..Len(w) :
                  (is_tree(w[i]) /\ \E m \in 1..Len(w[i].tree.entries) :
                                        w[i].tree.entries[m] = w[j]) => i < j

\* The CIDs of a tree all of whose nodes serialize: the root CID, the CID of
\* every subtree node and the value of every leaf.
CidsOf(t) ==
    {get_pointer(n).val : n \in Nodes(t)}
    \cup {InOrderLeaves(t)[i].value : i \in 1..Len(InOrderLeaves(t))}

\* C17: all_cids() on any finite tree terminates and returns exactly the set
\* made of the root CID, the CID of every subtree node and the value CID of
\* every leaf.
C17_AllCidsTerminatesWithAllCids ==
    (proper /\ \A n \in Nodes(tree) : IsOk(get_pointer(n))) =>
        all_cids(tree) = Ok(CidsOf(tree))

\* Every node of the tree serializes, so that the tree can be stored.
Storable(t) == \A n \in Nodes(t) : IsOk(get_pointer(n))

\* The CIDs of the node blocks of a storable tree.
NodeCids(t) == {get_pointer(n).val : n \in Nodes(t)}

\* The block stores that hold the tree in part: at least one node block is
\* missing, at most one holds a block that is not a node.
PartialStorages(t) ==
    {Storage(NodeCids(t) \ (missing \cup other), other) :
        missing \in (SUBSET NodeCids(t)) \ {{}},
        other \in {{}} \cup {{c} : c \in NodeCids(t)}}

RECURSIVE ReachableNodes(_, _)

\* The nodes of a tree that can be read from the block store: the root when
\* its block is a node block, and so on down from every node that can be read.
ReachableNodes(t, storage) ==
    IF get_pointer(t).val \notin storage.nodes THEN {}
    ELSE {t} \cup UNION {ReachableNodes(t.entries[i].tree, storage) :
                            i \in {j \in 1..Len(t.entries) : is_tree(t.entries[j])}}

\* The leaves held by a set of nodes.
LeavesIn(nodes) ==
    UNION {{n.entries[i] : i \in {j \in 1..Len(n.entries) : is_leaf(n.entries[j])}} : n \in nodes}

\* The CIDs the walk tries to read: the root and the subtrees of the nodes read.
PointersRead(t, storage) ==
    {get_pointer(t).val}
    \cup UNION {{get_pointer(n.entries[i].tree).val :
                    i \in {j \in 1..Len(n.entries) : is_tree(n.entries[j])}} :
                n \in ReachableNodes(t, storage)}

\* walk_reachable on the stored tree, loaded by its root CID.
WalkStored(t, storage) ==
    ReachableItems(storage, walk_reachable(load(get_pointer(t).val, None)))

\* C18 for one block store.
WalkReachableSkipsMissing(t, storage) ==
    LET r == WalkStored(t, storage)
        w == r.val
    IN /\ IsOk(r)
       \* no error for a missing block
       /\ \A i \in 1..Len(w) : w[i].tag = "Err" => w[i].msg # MissingBlockMsg
       \* every node and leaf that can be read is yielded
       /\ \A n \in ReachableNodes(t, storage) :
              \E i \in 1..Len(w) : /\ IsOk(w[i]) /\ is_tree(w[i].val)
                                   /\ w[i].val.tree.pointer = get_pointer(n).val
       /\ \A leaf \in LeavesIn(ReachableNodes(t, storage)) :
              \E i \in 1..Len(w) : w[i] = Ok(leaf)
       \* nothing is yielded from under a missing block
       /\ \A i \in 1..Len(w) :
              (IsOk(w[i]) /\ is_leaf(w[i].val)) => w[i].val \in LeavesIn(ReachableNodes(t, storage))
       \* an error other than a missing block is yielded
       /\ \A c \in PointersRead(t, storage) \cap storage.others :
              \E i \in 1..Len(w) : w[i] = Err(UnexpectedObjectMsg)

\* C18: walk_reachable on a tree some of whose subtree blocks are absent from
\* the block store yields no error for those subtrees, skips their contents,
\* still yields every leaf and node of every subtree whose block is present,
\* and yields any error other than a missing block to the caller.
C18_WalkReachableSkipsMissing ==
    (proper /\ Storable(tree)) =>
        \A storage \in PartialStorages(tree) : WalkReachableSkipsMissing(tree, storage)

\* C18 on the trees in which every node holds a leaf.
C18_OnNodesWithLeaves ==
    (proper /\ Storable(tree) /\ \A n \in Nodes(tree) : LeavesIn({n}) # {}) =>
        \A storage \in PartialStorages(tree) : WalkReachableSkipsMissing(tree, storage)

\* ------------------------------------------------------------------ C19

\* Import p has selected the repo_root row and its apply_commit is not
\* complete.
InSpan(p) == imports[p].pc \in {"verify_diff", "storage_read", "put_blocks", "update_root"}

\* C19: two imports into one repo never interleave between reading the
\* prior root and replacing it: at most one import at a time is between its
\* selection of the root and the completion of its apply_commit, and the root
\* an import in that span has read is still the root of the repo.
C19_ImportSpanExclusive ==
    /\ \A p, q \in Importers : p # q => ~(InSpan(p) /\ InSpan(q))
    /\ \A p \in Importers : InSpan(p) => imports[p].res = repo_root

\* ------------------------------------------------------------------ C20

\* This step is import p's apply_commit replacing the root.
Applies(p) == imports[p].pc = "update_root" /\ imports'[p].pc = "index_writes"

NotOneRoot(p) ==
    /\ imports[p].pc # "idle"
    /\ imports[p].car.ok
    /\ Len(imports[p].car.roots) # 1

\* This step is a step of import p after its request arrived.
StepOf(p) == imports[p].pc \notin {"idle", "done"} /\ imports'[p] # imports[p]

\* C21: an import whose CAR does not declare exactly one root is rejected
\* with an error: it never gets to verify_diff or apply_commit, it ends with
\* an Err, and none of its steps changes the block store, the repo root or
\* the record index.
C21_NotOneRootRejected ==
    /\ [](\A p \in Importers : NotOneRoot(p) =>
             /\ imports[p].pc \in {"read_car", "done"}
             /\ imports[p].pc = "done" => imports[p].result.tag = "Err")
    /\ [][\A p \in Importers : (NotOneRoot(p) /\ StepOf(p)) =>
             UNCHANGED <<block_store, repo_root, record_index>>]_vars

\* ------------------------------------------------------------------ C22

\* Import p runs on bytes that read_car cannot read.
Unreadable(p) == imports[p].pc # "idle" /\ ~imports[p].car.ok

\* C22: an import whose CAR bytes cannot be read ends with an error for the
\* caller, and none of its steps changes the block store, the repo root or the
\* record index.
C22_UnreadableCarFails ==
    /\ [](\A p \in Importers : Unreadable(p) =>
             /\ imports[p].pc \in {"read_car", "done"}
             /\ imports[p].pc = "done" => imports[p].result.tag = "Err")
    /\ [][\A p \in Importers : (Unreadable(p) /\ StepOf(p)) =>
             UNCHANGED <<block_store, repo_root, record_index>>]_vars

\* C22 without the error: the import of unreadable bytes goes no further than
\* read_car and changes nothing.
C22_UnreadableCarChangesNothing ==
    /\ [](\A p \in Importers : Unreadable(p) => imports[p].pc \in {"read_car", "done"})
    /\ [][\A p \in Importers : (Unreadable(p) /\ StepOf(p)) =>
             UNCHANGED <<block_store, repo_root, record_index>>]_vars

\* ------------------------------------------------------------------ C23

\* The CIDs with bytes stored, by the reference.
StoredCids == {c \in BlockCids : block_ref[c] # None}

\* C23: get_many(cids) returns as found exactly the requested CIDs that are
\* in the map, each with the bytes the map holds for it, and as missing the
\* requested CIDs that are not in the map, in the order of the request; the map
\* is the same after the call.
C23_GetManyFoundAndMissing ==
    block_call.op = "get_many" =>
        LET cids == block_call.cids
            found == block_call.result.val
            requested == {cids[i] : i \in 1..Len(cids)}
        IN /\ IsOk(block_call.result)
           /\ DOMAIN found.blocks.map = {Cid_to_string(c) : c \in requested \cap StoredCids}
           /\ \A c \in requested \cap StoredCids :
                  found.blocks.map[Cid_to_string(c)] = block_ref[c][1]
           /\ found.missing = SelectSeq(cids, LAMBDA c : c \notin StoredCids)
           /\ block_map = block_call.before

\* A request with a CID that is stored and two that are not was answered.
C23_Witness ==
    /\ block_call.op = "get_many"
    /\ Len(block_call.result.val.missing) >= 2
    /\ block_call.result.val.missing[1] # block_call.result.val.missing[2]
    /\ DOMAIN block_call.result.val.blocks.map # {}

\* ------------------------------------------------------------------ C24

RECURSIVE SumOfLengths(_)
\* The sum of the lengths of the bytes the reference holds for a set of CIDs.
SumOfLengths(cids) ==
    IF cids = {} THEN 0
    ELSE LET c == CHOOSE x \in cids : TRUE
         IN Len(block_ref[c][1]) + SumOfLengths(cids \ {c})

\* C24: after any sequence of add, set, delete, add_map and clear, size() is
\* the number of distinct CIDs stored and byte_size() is the sum of the
\* lengths of the bytes last stored for each of them.
C24_SizeAndByteSize ==
    /\ BlockMap_size(block_map) = Cardinality(StoredCids)
    /\ BlockMap_byte_size(block_map) = Ok(SumOfLengths(StoredCids))

\* A set or add_map has overwritten the bytes of a CID with bytes of another
\* length, in a map that holds another CID as well.
C24_Witness ==
    /\ block_call.op \in {"set", "add_map"}
    /\ Cardinality(StoredCids) >= 2
    /\ \E c \in StoredCids :
          /\ Cid_to_string(c) \in DOMAIN block_call.before.map
          /\ Len(block_call.before.map[Cid_to_string(c)]) # Len(block_ref[c][1])

\* ------------------------------------------------------------------ C25

\* C25: an IpldValue without floats, converted to JSON and back, is equal to
\* the value converted.
C25_IpldJsonRoundTrip ==
    conv.op = "ipld_json_ipld" => IpldValue_eq(conv.output, conv.input)

RECURSIVE PlainIpld(_)
\* The value holds no string that is the text of a CID and no object whose
\* only key is "$link" or "$bytes".
PlainIpld(v) ==
    CASE v.tag = "String" -> ~IsOk(Cid_from_str(v.val))
      [] v.tag = "Array" -> \A i \in 1..Len(v.val) : PlainIpld(v.val[i])
      [] v.tag = "Object" ->
            /\ DOMAIN v.val \notin {{Text("$link")}, {Text("$bytes")}}
            /\ \A k \in DOMAIN v.val : PlainIpld(v.val[k])
      [] OTHER -> TRUE

\* C25 on the values that hold no text of a CID and no "$link" or "$bytes"
\* object.
C25_OnPlainValues ==
    (conv.op = "ipld_json_ipld" /\ PlainIpld(conv.input)) => IpldValue_eq(conv.output, conv.input)

\* ------------------------------------------------------------------ C26

\* The JSON value is an object whose only member is "$link" with the text of
\* a CID.
IsLinkObject(json) ==
    /\ json.tag = "Object"
    /\ DOMAIN json.val = {Text("$link")}
    /\ json.val[Text("$link")].tag = "String"
    /\ IsOk(Cid_from_str(json.val[Text("$link")].val))

\* C26: a bare JSON string is converted to a string value, also when its
\* text is that of a CID, and only a {"$link": cid} object is converted to a
\* Cid value, by IpldValue::from and by LexValue::from.
C26_OnlyLinkObjectIsCid ==
    /\ conv.op = "json_ipld" =>
          /\ conv.input.tag = "String" => conv.output = V("String", conv.input.val)
          /\ conv.output.tag = "Cid" => IsLinkObject(conv.input)
    /\ conv.op = "json_lex" =>
          /\ conv.input.tag = "String" => conv.output = V("Ipld", V("String", conv.input.val))
          /\ (conv.output.tag = "Ipld" /\ conv.output.val.tag = "Cid") => IsLinkObject(conv.input)

\* ------------------------------------------------------------------ C27

\* C27: a LexValue (an Ipld scalar, a Cid, Bytes, an Array, an Object or a
\* Blob), converted to JSON and back, is equal to the value converted.
C27_LexJsonRoundTrip ==
    conv.op = "lex_json_lex" => LexValue_eq(conv.output, conv.input)

\* ------------------------------------------------------------------ C28

\* C28: a Lex value (a map, a list, a blob or a wrapped Ipld value),
\* converted to Ipld and back, is the value converted.
C28_LexIpldRoundTrip ==
    conv.op = "lex_ipld_lex" => (~LexPanics(conv.output) /\ conv.output = conv.input)

\* ------------------------------------------------------------------ C29

RECURSIVE FirstLeafGe(_, _, _)
\* The 0-based position, in the full entry list, of the first leaf from
\* position i (1-based) on whose key is >= key; the number of entries when
\* there is none.
FirstLeafGe(entries, key, i) ==
    IF i > Len(entries) THEN Len(entries)
    ELSE IF is_leaf(entries[i]) /\ KeyGe(entries[i].key, key) THEN i - 1
    ELSE FirstLeafGe(entries, key, i + 1)

\* C29: on every node, find_gt_or_equal_leaf_index(key) is the position in
\* the node's full entry list, subtrees counted, of the first leaf whose key is
\* >= key, or the number of entries when there is no such leaf.
C29_IndexInFullEntryList ==
    \A n \in Nodes(tree), key \in Keys :
        find_gt_or_equal_leaf_index(n, key) = FirstLeafGe(get_entries(n), key, 1)

\* C29 on the nodes that hold no subtree before their last leaf.
C29_OnNodesWithoutLeftSubtrees ==
    \A n \in Nodes(tree), key \in Keys :
        (\A i \in 1..Len(get_entries(n)) :
            is_tree(get_entries(n)[i]) => \A j \in i..Len(get_entries(n)) : is_tree(get_entries(n)[j]))
        => find_gt_or_equal_leaf_index(n, key) = FirstLeafGe(get_entries(n), key, 1)

\* ------------------------------------------------------------------ C30

\* The in-order leaves of one side of a split.
SideLeaves(side) == IF IsSome(side) THEN InOrderLeaves(side[1]) ELSE <<>>

\* C30 for one node and one key.
SplitsAround(n, key) ==
    Let(split_around(n, key), LAMBDA split :
        /\ \A i \in 1..Len(SideLeaves(split[1])) : ~KeyGe(SideLeaves(split[1])[i].key, key)
        /\ \A i \in 1..Len(SideLeaves(split[2])) : KeyGe(SideLeaves(split[2])[i].key, key)
        /\ SideLeaves(split[1]) \o SideLeaves(split[2]) = InOrderLeaves(n)
        /\ \A s \in 1..2 : IsSome(split[s]) <=> SideLeaves(split[s]) # <<>>
        /\ \A s \in 1..2 : IsSome(split[s]) => get_entries(split[s][1]) # <<>>)

\* C30: split_around(key) returns (left, right) with every leaf under left
\* below key, every leaf under right at or above key, the leaves of left
\* followed by the leaves of right being the leaves of the tree, and a side
\* None exactly when it has no entries.
C30_SplitAroundPartitions ==
    proper => \A n \in Nodes(tree), key \in Keys : SplitsAround(n, key)

\* ------------------------------------------------------------------ C31

\* The pairs (left, right) of subtrees on the two sides of one leaf of a
\* node of t: the arguments delete_recurse hands to append_merge.
MergePairs(t) ==
    {<<get_entries(n)[i - 1].tree, get_entries(n)[i + 1].tree>> :
        <<n, i>> \in {<<m, j>> \in Nodes(t) \X (1..5) :
            /\ 1 < j /\ j < Len(get_entries(m))
            /\ is_leaf(get_entries(m)[j])
            /\ is_tree(get_entries(m)[j - 1])
            /\ is_tree(get_entries(m)[j + 1])}}

\* All keys of left below all keys of right.
KeysBelow(left, right) ==
    \A a \in KeysOf(left), b \in KeysOf(right) : KeyLt(a, b)

\* left's last entry and right's first entry are both subtrees.
MergesRecursively(left, right) ==
    /\ get_entries(left) # <<>> /\ get_entries(right) # <<>>
    /\ is_tree(get_entries(left)[Len(get_entries(left))])
    /\ is_tree(get_entries(right)[1])

\* C31 for one pair of trees.
MergesInOrder(left, right) ==
    Let(append_merge(left, right), LAMBDA merged :
        IF get_layer(left) = get_layer(right)
        THEN IsOk(merged)
             /\ InOrderLeaves(merged.val) = InOrderLeaves(left) \o InOrderLeaves(right)
        ELSE merged = Err(MergeLayersMsg))

\* C31: append_merge(left, right) on two trees of the same layer, the keys of
\* left below the keys of right, returns a tree whose in-order leaves are the
\* leaves of left followed by the leaves of right, also when left's last and
\* right's first entry are subtrees merged recursively; on trees of different
\* layers it returns an error.
C31_AppendMergeKeepsLeaves ==
    \A p \in MergePairs(tree) : KeysBelow(p[1], p[2]) => MergesInOrder(p[1], p[2])

\* C31 on the pairs that are merged without a recursive merge.
C31_WithoutRecursiveMerge ==
    \A p \in MergePairs(tree) :
        KeysBelow(p[1], p[2]) /\ ~MergesRecursively(p[1], p[2]) => MergesInOrder(p[1], p[2])

\* ------------------------------------------------------------------ C32

\* The key is smaller than every leaf of the node: the located index is 0.
LocatedAtZero(n, key) == find_gt_or_equal_leaf_index(n, key) = 0

\* C32 in the current state: the add of the first key to the empty tree has
\* completed normally, no call has failed on the index before index 0, and
\* get of a key located at index 0 of a node completes normally.
IndexZeroIsNoEntry ==
    /\ (call.op = "add" /\ call.before = EmptyTree /\ call.key \in Keys) => call.tag = "Ok"
    /\ call.msg # SubOverflowMsg
    /\ \A n \in Nodes(tree), key \in Keys : LocatedAtZero(n, key) => IsOk(get(n, key))

\* C32: in add, get, update and delete_recurse, when the located index is 0
\* the lookup of the previous entry (index - 1 on an unsigned index) behaves
\* as "no entry" and does not fail: adding the first key to an empty tree, and
\* getting or adding a key smaller than every leaf of a node, complete normally.
C32_IndexZeroIsNoEntry == IndexZeroIsNoEntry

\* C32 in the builds without overflow checks.
C32_WithoutOverflowChecks == ~overflow_checks => IndexZeroIsNoEntry

\* ------------------------------------------------------------------ C33

\* The tree is the empty root and its block is what the store holds.
PersistedEmptyRoot == get_entries(tree) = <<>> /\ IsOk(get_pointer(tree))

\* C33: get_entries on a pointer-only (lazily loaded) MST whose stored node
\* block has zero entries, the persisted empty root, returns an empty entry
\* list instead of failing.
C33_EmptyRootLoads ==
    PersistedEmptyRoot =>
        Let(get_pointer(tree).val, LAMBDA cid :
            get_entries_from(Storage({cid}, {}), load(cid, None)) = Ok(<<>>))

\* ------------------------------------------------------------------ C34

\* SqlRepoReader::has: the block store holds a block under the CID.
has(storage, cid) == cid \in storage.nodes \cup storage.others

\* struct_to_cbor of a NodeData: the DAG-CBOR map of l and e.
node_to_cbor(data) == <<"cbor", data.l, data.e>>

\* BlockMap::add of a NodeData: self afterwards and the CID returned.
BlockMap_add_node(self, data) ==
    Try(Ok(cid_for_cbor(data)), LAMBDA cid :
        Ok([self |-> BlockMap_set(self, cid, node_to_cbor(data)), cid |-> cid]))

RECURSIVE get_unstored_blocks(_, _)
RECURSIVE unstored_subtrees(_, _, _, _)

\* `for entry in entries` of get_unstored_blocks, from position i (1-based)
\* on: the blocks of every subtree entry are added to blocks.
unstored_subtrees(storage, entries, i, blocks) ==
    IF i > Len(entries) THEN Ok(blocks)
    ELSE IF is_tree(entries[i])
    THEN Try(get_unstored_blocks(storage, entries[i].tree), LAMBDA subtree :
         Try(BlockMap_add_map(blocks, subtree.blocks), LAMBDA added :
             unstored_subtrees(storage, entries, i + 1, added)))
    ELSE unstored_subtrees(storage, entries, i + 1, blocks)

\* MST::get_unstored_blocks: UnstoredBlocks { root, blocks }.
get_unstored_blocks(storage, self) ==
    Try(get_pointer(self), LAMBDA pointer :
        IF has(storage, pointer) THEN Ok([root |-> pointer, blocks |-> BlockMap_new])
        ELSE Try(node_data(get_entries(self)), LAMBDA data :
             Try(BlockMap_add_node(BlockMap_new, data), LAMBDA added :
             Try(unstored_subtrees(storage, get_entries(self), 1, added.self), LAMBDA blocks :
                 Ok([root |-> pointer, blocks |-> blocks])))))

\* The CIDs a BlockMap holds a block for.
CidsIn(blocks) == {k[2] : k \in DOMAIN blocks.map}

\* The block store that holds every node of the tree the last call was made on.
StorageBefore == Storage(NodeCids(call.before), {})

\* The last call derived the tree from a tree whose nodes are all in storage.
DerivedFromStored == ReturnedTree /\ Storable(call.before)

\* C34 for the tree and the block store it was derived from.
UnstoredBlocksComplete(storage, t) ==
    Let(get_unstored_blocks(storage, t), LAMBDA r :
        /\ IsOk(r)
        /\ Ok(r.val.root) = get_pointer(Fresh(t))
        /\ CidsIn(r.val.blocks) \cap storage.nodes = {}
        /\ \A i \in 1..Len(InOrderLeaves(t)) : InOrderLeaves(t)[i].value \notin CidsIn(r.val.blocks)
        /\ \A n \in Nodes(t) :
               /\ IsOk(get_pointer(n))
               /\ get_pointer(n).val \in storage.nodes \cup CidsIn(r.val.blocks))

\* C34: for a tree derived by add, update or delete from a tree whose nodes
\* are all in storage, get_unstored_blocks returns the new root CID and a
\* BlockMap that contains no block already in storage and no leaf record
\* block, and storage together with the returned blocks contains the block of
\* every MST node reachable from that root.
C34_UnstoredBlocksComplete ==
    DerivedFromStored => UnstoredBlocksComplete(StorageBefore, tree)

\* C34 on the derived trees all of whose nodes serialize.
C34_OnStorableTrees ==
    (DerivedFromStored /\ Storable(tree)) => UnstoredBlocksComplete(StorageBefore, tree)

\* A derived tree with a block to store and a block already stored.
C34_Witness ==
    /\ DerivedFromStored /\ Storable(tree)
    /\ IsOk(get_unstored_blocks(StorageBefore, tree))
    /\ CidsIn(get_unstored_blocks(StorageBefore, tree).val.blocks) # {}
    /\ NodeCids(tree) \cap StorageBefore.nodes # {}

\* ------------------------------------------------------------------ C35

MissingBlocksMsg == "DataStoreError::MissingBlocks"

\* SqlRepoReader::get_blocks: the CIDs of the request that have no block.
get_blocks_missing(storage, cids) == {c \in cids : ~has(storage, c)}

\* parse::get_and_parse_by_kind(&fetched.blocks, cid, Ipld::Node): the
\* NodeData of a fetched block, an error when the block is not a node.
get_and_parse_by_kind(storage, cid) ==
    IF cid \in storage.nodes THEN Ok(cid.node) ELSE Err(UnexpectedObjectMsg)

\* The value CIDs of the leaves and the pointers of the subtrees among the
\* entries of one node.
leaf_values(entries) == {entries[i].value : i \in {j \in 1..Len(entries) : is_leaf(entries[j])}}
subtree_pointers(entries) ==
    {entries[i].tree.pointer : i \in {j \in 1..Len(entries) : is_tree(entries[j])}}

\* The loop over one layer that also pushes the value of every leaf it meets.
RECURSIVE write_layer_pushing_leaves(_, _, _, _, _, _)
write_layer_pushing_leaves(storage, cid_list, i, car, leaves, next_layer) ==
    IF i > Len(cid_list) THEN Ok([car |-> car, leaves |-> leaves, next_layer |-> next_layer])
    ELSE Try(get_and_parse_by_kind(storage, cid_list[i]), LAMBDA node_data_found :
         Let(deserialize_node_data(node_data_found, None), LAMBDA entries :
             write_layer_pushing_leaves(storage, cid_list, i + 1,
                 Append(car, cid_list[i]) \o SelectSeq([j \in 1..Len(entries) |->
                     IF is_leaf(entries[j]) THEN entries[j].value ELSE None], LAMBDA v : v # None),
                 leaves \cup leaf_values(entries),
                 next_layer \cup subtree_pointers(entries))))

\* `for cid in to_fetch.to_list()` of write_to_car_stream, from position i
\* (1-based) of the cid_list on: the block is pushed on the CAR, its leaves
\* are added to leaves and the pointers of its subtrees to next_layer.
RECURSIVE write_layer(_, _, _, _, _, _)
write_layer(storage, cid_list, i, car, leaves, next_layer) ==
    IF i > Len(cid_list) THEN Ok([car |-> car, leaves |-> leaves, next_layer |-> next_layer])
    ELSE Try(get_and_parse_by_kind(storage, cid_list[i]), LAMBDA node_data_found :
         Let(deserialize_node_data(node_data_found, None), LAMBDA entries :
             write_layer(storage, cid_list, i + 1,
                 Append(car, cid_list[i]),
                 leaves \cup leaf_values(entries),
                 next_layer \cup subtree_pointers(entries))))

\* `while to_fetch.size() > 0` of write_to_car_stream: the outcomes it can
\* have, one per order in which CidSet::to_list can give the CIDs of a layer
\* (the order of a CidSet is not fixed).
RECURSIVE write_layers(_, _, _, _)
write_layers(storage, to_fetch, car, leaves) ==
    IF to_fetch = {} THEN {Ok([car |-> car, leaves |-> leaves])}
    ELSE IF get_blocks_missing(storage, to_fetch) # {} THEN {Err(MissingBlocksMsg)}
    ELSE UNION {Let(write_layer(storage, cid_list, 1, car, leaves, {}), LAMBDA r :
                    IF IsOk(r) THEN write_layers(storage, r.val.next_layer, r.val.car, r.val.leaves)
                    ELSE {r}) : cid_list \in Orders(to_fetch)}

\* MST::write_to_car_stream: the results it can return, with the CIDs of the
\* blocks pushed on the CAR in the order of the pushes.
write_to_car_stream(storage, self) ==
    IF ~IsOk(get_pointer(self)) THEN {get_pointer(self)}
    ELSE UNION {IF ~IsOk(r) THEN {r}
                ELSE IF get_blocks_missing(storage, r.val.leaves) # {} THEN {Err(MissingBlocksMsg)}
                ELSE {Ok(r.val.car \o cid_list) : cid_list \in Orders(r.val.leaves)} :
                    r \in write_layers(storage, {get_pointer(self).val}, <<>>, {})}

\* The block store that holds every node block and every record of a tree.
StorageOf(t) == Storage(NodeCids(t), leaf_values(InOrderLeaves(t)))

\* The pairs (CID of a node, CID of a node of one of its subtrees) of a tree.
AncestorPairs(t) ==
    UNION {{<<get_pointer(n).val, get_pointer(m).val>> : m \in Nodes(n) \ {n}} : n \in Nodes(t)}

\* The positions of a CID in a CAR.
PositionsIn(car, cid) == {i \in 1..Len(car) : car[i] = cid}

\* C35 for one CAR, written from a tree with root CID root, node CIDs nodes,
\* ancestor pairs pairs and leaf values values.
RootFirstNodesThenLeaves(car, root, nodes, pairs, values) ==
    /\ car[1] = root
    /\ \A c \in nodes \cup values : Cardinality(PositionsIn(car, c)) = 1
    /\ Len(car) = Cardinality(nodes) + Cardinality(values)
    /\ \A p \in pairs : \A i \in PositionsIn(car, p[1]), j \in PositionsIn(car, p[2]) : i < j
    /\ \A v \in values, c \in nodes :
           \A i \in PositionsIn(car, v), j \in PositionsIn(car, c) : j < i

\* C35 for every CAR that can be written from a stored tree.
WritesRootFirstNodesThenLeaves(t) ==
    Let(NodeCids(t), LAMBDA nodes :
    Let(AncestorPairs(t), LAMBDA pairs :
    Let(leaf_values(InOrderLeaves(t)), LAMBDA values :
        \A r \in write_to_car_stream(Storage(nodes, values), t) :
            IsOk(r) /\ RootFirstNodesThenLeaves(r.val, get_pointer(t).val, nodes, pairs, values))))

\* C35: write_to_car_stream appends the root node's block first, appends the
\* block of every MST node reachable from the root exactly once with each
\* node before any node of its subtrees, and appends leaf record blocks (one
\* per distinct value CID) only after all node blocks.
\* It is stated of the stored trees: the tree a repo starts from and every
\* tree returned by a call, when all its nodes serialize.
C35_RootFirstNodesThenLeaves ==
    (call.tag = "Ok" /\ Storable(tree)) => WritesRootFirstNodesThenLeaves(tree)

\* A stored tree of three layers with leaves of two values: the CAR holds
\* nodes of subtrees of subtrees and more than one leaf block.
C35_Witness ==
    /\ call.tag = "Ok" /\ Storable(tree)
    /\ \E n \in Nodes(tree), m \in Nodes(tree) : m \in Nodes(n) \ {n} /\ n \in Nodes(tree) \ {tree}
    /\ Cardinality(leaf_values(InOrderLeaves(tree))) = 2
    /\ get_entries(tree) # <<>> /\ \E i \in 1..Len(get_entries(tree)) : is_leaf(get_entries(tree)[i])
    /\ \E r \in write_to_car_stream(StorageOf(tree), tree) : IsOk(r)

\* ------------------------------------------------------------------ C36

\* The walk is done.
WalkIsDone == IsDone(mst_walker.walker.status)

\* The keys of a sequence of leaves ascend strictly.
Ascending(leaves) ==
    \A i \in 1..Len(leaves) : \A j \in 1..Len(leaves) : i < j => KeyLt(leaves[i].key, leaves[j].key)

\* The leaves met by a finished walk are the leaves of the tree, each once,
\* in ascending key order.
MetEveryLeafInOrder ==
    WalkIsDone =>
        /\ mst_walker.seen = InOrderLeaves(mst_walker.root)
        /\ Ascending(mst_walker.seen)
        /\ Len(mst_walker.seen) = Cardinality(KeysOf(mst_walker.root))

\* C36: starting from MstWalker::new(root) on a finite tree whose nodes are
\* all available, repeatedly calling advance() reaches status Done after
\* finitely many calls, and the leaves that become curr along the way are
\* exactly the tree's leaves, each once, in ascending key order.
C36_AdvanceReachesDoneInOrder ==
    /\ [](mst_walker.op # "none" => <>WalkIsDone)
    /\ []MetEveryLeafInOrder

\* A walk of a tree of three layers that is done and has met four leaves.
C36_Witness ==
    /\ WalkIsDone
    /\ Len(mst_walker.seen) >= 4
    /\ \E n \in Nodes(mst_walker.root) \ {mst_walker.root} : Nodes(n) # {n}

\* ------------------------------------------------------------------ C37

\* A call on a walker that is done: step_over, step_into and advance return
\* Ok, layer returns an error, and neither stack nor status changes.
DoneStaysDone ==
    (WalkIsDone /\ mst_walker'.op # "new") =>
        /\ mst_walker'.walker = mst_walker.walker
        /\ mst_walker'.op \in {"step_over", "step_into", "advance"} => mst_walker'.tag = "Ok"
        /\ mst_walker'.op = "layer" => mst_walker'.tag = "Err" /\ mst_walker'.msg = WalkDoneMsg

\* C37: once the walker's status is Done it stays Done: step_over, step_into
\* and advance return Ok and change neither status nor stack, and layer()
\* returns an error.
C37_DoneStaysDone == [][DoneStaysDone]_vars

\* layer() has been called on a walker that is done after meeting leaves.
C37_Witness ==
    /\ WalkIsDone
    /\ mst_walker.op = "layer"
    /\ mst_walker.seen # <<>>

\* ------------------------------------------------------------------ C38

\* The last call of format_seq_commit was given more than 200 writes or more
\* than 1,000,000 bytes of blocks, with the commit block among them.
TooBigCommit ==
    /\ seq_evt.op = "format_seq_commit"
    /\ seq_evt.writes > 200 \/ seq_evt.byte_size > 1000000
    /\ IsSome(seq_evt.commit_block)

\* C38: when format_seq_commit classifies a commit as too big (more than 200
\* writes, or more than 1,000,000 bytes of new plus relevant blocks), the
\* event has too_big = true and no ops, and its CAR holds exactly one block:
\* the commit block, stored under commit_data.cid, which is also the CAR root.
C38_TooBigSendsCommitBlock ==
    TooBigCommit =>
        /\ seq_evt.tag = "Ok"
        /\ seq_evt.evt[1].too_big
        /\ seq_evt.evt[1].ops = <<>>
        /\ seq_evt.evt[1].blocks.roots = <<seq_evt.commit>>
        /\ seq_evt.evt[1].blocks.blocks = {<<seq_evt.commit, seq_evt.commit_block[1]>>}

\* What holds of a commit that is too big: too_big is set, there are no ops,
\* the CAR root is commit_data.cid and the CAR holds one block; the block is
\* the CBOR encoding of the commit block under the CID of that encoding.
C38_TooBigSendsEncodedBlock ==
    TooBigCommit =>
        /\ seq_evt.tag = "Ok"
        /\ seq_evt.evt[1].too_big
        /\ seq_evt.evt[1].ops = <<>>
        /\ seq_evt.evt[1].blocks.roots = <<seq_evt.commit>>
        /\ seq_evt.evt[1].blocks.blocks =
              {<<cid_for_cbor_option(seq_evt.commit_block),
                 struct_to_cbor_option(seq_evt.commit_block)>>}

\* Both ways to be too big happen: by the writes alone and by the bytes alone.
C38_Witness ==
    /\ TooBigCommit
    /\ seq_evt.writes <= 200
    /\ seq_evt.byte_size = 1000001

\* ------------------------------------------------------------------ C39

RECURSIVE BlobsWithin(_, _)
\* The blob references a Lex value holds at nesting depth at most 32, the
\* value itself being at depth `depth`.
BlobsWithin(val, depth) ==
    IF depth > 32 THEN {}
    ELSE CASE val.tag = "Blob" -> {val.val}
           [] val.tag = "List" -> UNION {BlobsWithin(val.val[i], depth + 1) : i \in 1..Len(val.val)}
           [] val.tag = "Map" -> UNION {BlobsWithin(val.val[k], depth + 1) : k \in DOMAIN val.val}
           [] OTHER -> {}

\* C39: find_blob_refs(val, 0) returns every blob reference contained in val
\* at nesting depth at most 32 (a Blob value yields itself; blobs inside lists
\* and maps are found), and returns nothing for content nested deeper than 32
\* levels.
C39_FindsBlobsToDepth32 ==
    conv.op = "find_blob_refs" =>
        {conv.output[i] : i \in 1..Len(conv.output)} = BlobsWithin(conv.input, 0)

\* What holds: find_blob_refs returns no blob reference at all.
C39_FindsNothing == conv.op = "find_blob_refs" => conv.output = <<>>

\* A value with a blob under 32 lists was searched.
C39_Witness ==
    /\ conv.op = "find_blob_refs"
    /\ conv.input \in {NestedLex(32, blob) : blob \in LexBlobs}

====
